---- MODULE Spec2Model ----
(***************************************************************************)
(* Model of patreon-posts: the SQLite cache store (internal/db), the       *)
(* remote source client's pure helpers (internal/api) and the structures   *)
(* that connect them.  Text is modelled at character level where the code  *)
(* works at character level (JSON encoding of link lists, URL patterns).   *)
(***************************************************************************)
EXTENDS Integers, Sequences, FiniteSets, TLC

(***************************************************************************)
(* Bounds of the model.                                                    *)
(***************************************************************************)
\* CURRENT_TIMESTAMP takes the values 0..MaxClock
MaxClock == 1

(***************************************************************************)
(* State.                                                                  *)
(***************************************************************************)
VARIABLES
    campaigns,   \* table campaigns: rows [id, name, cached_at]
    posts,       \* table posts
    now,         \* value of CURRENT_TIMESTAMP
    call,        \* position inside ClearCampaignCache, the one two-statement operation
    last,        \* the last call on the store: operation, id and whether it returned an error
    content,     \* the text given to ExtractYouTubeLinks
    links,       \* the slice it returned
    xpc,         \* "idle", "call" before and "done" after the call of ExtractYouTubeLinks
    nextParts,   \* how the response's links.next was put together: base and parameters
    resp,        \* the remote's answer to the request
    reqCursor,   \* the cursor argument of FetchPosts
    fetched,     \* what FetchPosts returned
    fpc,         \* "idle", "call" before and "done" after the call of FetchPosts
    cfg,         \* the batch workflow's inputs: configured campaigns and the cutoff text
    remote,      \* what the remote source holds during a batch run
    bpc,         \* position of the batch workflow
    run,         \* its local variables
    trace,       \* the remote calls, sleeps and store writes it has made, in order
    ret,         \* what it returned and printed
    ui,          \* the browser's Model
    units,       \* the fetches the browser has dispatched and not yet applied
    handled,     \* the message Update handled last
    nav          \* what the pages on display were fetched with: kept for the properties

storeVars == <<campaigns, posts, now, call, last>>

extractVars == <<content, links, xpc>>

fetchVars == <<nextParts, resp, reqCursor, fetched, fpc>>

batchVars == <<cfg, remote, bpc, run, trace, ret>>

uiVars == <<ui, units, handled, nav>>

vars == <<storeVars, extractVars, fetchVars, batchVars, uiVars>>

(***************************************************************************)
(* Go values.                                                              *)
(***************************************************************************)
\* A Go string that the code inspects character by character is a sequence
\* of one-character strings; an opaque one is a TLA+ string.

\* a Go slice []string: nil or a (possibly empty) sequence of elements
NilSlice == [isNil |-> TRUE, elems |-> << >>]

MkSlice(elems) == [isNil |-> FALSE, elems |-> elems]

\* append(s, e): appending to a nil slice allocates
Append1(s, e) == [isNil |-> FALSE, elems |-> Append(s.elems, e)]

RECURSIVE Concat(_)
\* concatenation of a sequence of character sequences
Concat(ss) == IF ss = << >> THEN << >> ELSE Head(ss) \o Concat(Tail(ss))

(***************************************************************************)
(* encoding/json as the callers use it: json.Marshal of a []string and     *)
(* json.Unmarshal into a []string.                                         *)
(***************************************************************************)
\* encodeState.string with HTML escaping (the default of json.Marshal)
JsonEscapeChar(c) ==
    CASE c = "\"" -> <<"\\", "\"">>
      [] c = "\\" -> <<"\\", "\\">>
      [] c = "&"  -> <<"\\", "u", "0", "0", "2", "6">>
      [] c = "<"  -> <<"\\", "u", "0", "0", "3", "c">>
      [] c = ">"  -> <<"\\", "u", "0", "0", "3", "e">>
      [] OTHER    -> <<c>>

RECURSIVE JsonEscape(_)
JsonEscape(s) == IF s = << >> THEN << >> ELSE JsonEscapeChar(Head(s)) \o JsonEscape(Tail(s))

JsonQuote(s) == <<"\"">> \o JsonEscape(s) \o <<"\"">>

RECURSIVE JsonJoin(_)
\* the elements of an array, comma separated
JsonJoin(elems) ==
    IF elems = << >> THEN << >>
    ELSE IF Len(elems) = 1 THEN JsonQuote(elems[1])
    ELSE JsonQuote(Head(elems)) \o <<",">> \o JsonJoin(Tail(elems))

\* json.Marshal(links) for links of type []string: a nil slice encodes as null
Marshal(slice) ==
    IF slice.isNil THEN <<"n", "u", "l", "l">>
    ELSE <<"[">> \o JsonJoin(slice.elems) \o <<"]">>

\* the \uXXXX escapes the decoder meets in the encoder's output
JsonUnhex(h) ==
    CASE h = <<"0", "0", "2", "6">> -> [ok |-> TRUE, c |-> "&"]
      [] h = <<"0", "0", "3", "c">> -> [ok |-> TRUE, c |-> "<"]
      [] h = <<"0", "0", "3", "e">> -> [ok |-> TRUE, c |-> ">"]
      [] OTHER -> [ok |-> FALSE, c |-> ""]

RECURSIVE JsonScanString(_, _, _)
\* scans the body of a string literal from position i (after the opening
\* quote); answers the decoded string and the position after the closing quote
JsonScanString(s, i, acc) ==
    IF i > Len(s) THEN [ok |-> FALSE, val |-> << >>, next |-> i]
    ELSE IF s[i] = "\"" THEN [ok |-> TRUE, val |-> acc, next |-> i + 1]
    ELSE IF s[i] = "\\" THEN
        IF i + 1 > Len(s) THEN [ok |-> FALSE, val |-> << >>, next |-> i]
        ELSE IF s[i + 1] \in {"\"", "\\", "/"} THEN JsonScanString(s, i + 2, Append(acc, s[i + 1]))
        ELSE IF s[i + 1] = "u" /\ i + 5 <= Len(s) /\ JsonUnhex(SubSeq(s, i + 2, i + 5)).ok
             THEN JsonScanString(s, i + 6, Append(acc, JsonUnhex(SubSeq(s, i + 2, i + 5)).c))
        ELSE [ok |-> FALSE, val |-> << >>, next |-> i]
    ELSE JsonScanString(s, i + 1, Append(acc, s[i]))

RECURSIVE JsonScanElems(_, _, _)
\* scans the elements of an array from position i, which is the start of an
\* element; answers the elements when the array is closed at the end of s
JsonScanElems(s, i, acc) ==
    IF i > Len(s) \/ s[i] # "\"" THEN [ok |-> FALSE, elems |-> << >>]
    ELSE LET r == JsonScanString(s, i + 1, << >>) IN
         IF ~r.ok \/ r.next > Len(s) THEN [ok |-> FALSE, elems |-> << >>]
         ELSE IF s[r.next] = "]" THEN [ok |-> r.next = Len(s), elems |-> IF r.next = Len(s) THEN Append(acc, r.val) ELSE << >>]
         ELSE IF s[r.next] = "," THEN JsonScanElems(s, r.next + 1, Append(acc, r.val))
         ELSE [ok |-> FALSE, elems |-> << >>]

\* json.Unmarshal(data, &links) into a nil []string: null leaves the slice
\* nil, an array of strings fills it, anything else is an error and the
\* callers then use no element
Unmarshal(s) ==
    IF s = <<"n", "u", "l", "l">> THEN [err |-> FALSE, slice |-> NilSlice]
    ELSE IF s = <<"[", "]">> THEN [err |-> FALSE, slice |-> MkSlice(<< >>)]
    ELSE IF Len(s) >= 2 /\ s[1] = "[" THEN
        LET r == JsonScanElems(s, 2, << >>) IN
        IF r.ok THEN [err |-> FALSE, slice |-> MkSlice(r.elems)]
        ELSE [err |-> TRUE, slice |-> NilSlice]
    ELSE [err |-> TRUE, slice |-> NilSlice]

(***************************************************************************)
(* The cache store: internal/db/database.go.  A table is a set of rows;    *)
(* the PRIMARY KEY is not built into the representation, the statements    *)
(* maintain it.                                                            *)
(***************************************************************************)
CampaignIds == {"c1", "c2"}

PostIds == {"p1", "p2"}

\* names a campaign is saved with: "" by the browser, a configured name by main
Names == {"", "n1"}

\* the summary fields of a listed post, as FromPostData delivers them
SummaryInputs ==
    { [type |-> "post", post_type |-> "video_embed", title |-> "t1", patreon_url |-> "u1",
       current_user_can_view |-> TRUE, published_at |-> 2],
      [type |-> "poll", post_type |-> "text_only", title |-> "t2", patreon_url |-> "u2",
       current_user_can_view |-> FALSE, published_at |-> 1] }

\* the stripped descriptions FetchPostDetails delivers
Descriptions == {"", "d1"}

LinkA == <<"a", "&", "v">>

LinkQ == <<"\"", ",", "\\">>

\* the link lists the callers serialize: ExtractYouTubeLinks answers a nil
\* slice when it finds nothing
LinkLists == {NilSlice, MkSlice(<<LinkA, LinkQ>>)}

\* the details the callers save: description and link list of one fetched post
DetailInputs ==
    { [description |-> "", links |-> NilSlice],
      [description |-> "d1", links |-> MkSlice(<<LinkA, LinkQ>>)] }

\* what the callers pass to SavePostDetails: string(json.Marshal(links))
LinkJSON == [l \in LinkLists |-> Marshal(l)]

\* json.Unmarshal of a stored youtube_links value, tabulated for the values
\* the callers store
UnmarshalTable == [j \in {LinkJSON[l] : l \in LinkLists} |-> Unmarshal(j)]

UnmarshalLinks(j) == IF j \in DOMAIN UnmarshalTable THEN UnmarshalTable[j] ELSE Unmarshal(j)

\* sql.NullString
NullString == [valid |-> FALSE, str |-> ""]

NullText == [valid |-> FALSE, str |-> << >>]

ValidString(s) == [valid |-> TRUE, str |-> s]

\* the zero value of db.CachedPost
ZeroCachedPost ==
    [ID |-> "", CampaignID |-> "", Type |-> "", PostType |-> "", Title |-> "", PatreonURL |-> "",
     CurrentUserCanView |-> FALSE, PublishedAt |-> 0, Description |-> "", YouTubeLinks |-> << >>,
     CachedAt |-> 0, DetailsCached |-> FALSE]

\* the db.CachedPost that fetchPosts builds from a listed post
CachedPostOf(id, cid, sum) ==
    [ZeroCachedPost EXCEPT !.ID = id, !.CampaignID = cid, !.Type = sum.type,
        !.PostType = sum.post_type, !.Title = sum.title, !.PatreonURL = sum.patreon_url,
        !.CurrentUserCanView = sum.current_user_can_view, !.PublishedAt = sum.published_at]

RowsById(rows, id) == {r \in rows : r.id = id}

\* INSERT INTO campaigns ... ON CONFLICT(id) DO UPDATE SET name, cached_at
SaveCampaignRows(rows, id, name, t) ==
    IF RowsById(rows, id) # {}
    THEN {IF r.id = id THEN [r EXCEPT !.name = name, !.cached_at = t] ELSE r : r \in rows}
    ELSE rows \cup {[id |-> id, name |-> name, cached_at |-> t]}

\* the row SavePost's INSERT creates: the columns it does not name take
\* their defaults, NULL for description and youtube_links
SavePostInsert(post, t) ==
    [id |-> post.ID, campaign_id |-> post.CampaignID, type |-> post.Type,
     post_type |-> post.PostType, title |-> post.Title, patreon_url |-> post.PatreonURL,
     current_user_can_view |-> post.CurrentUserCanView, published_at |-> post.PublishedAt,
     description |-> NullString, youtube_links |-> NullText, cached_at |-> t,
     details_cached |-> FALSE]

\* SavePost as INSERT OR REPLACE: the conflicting row is replaced by a new one
SavePostUpdate_Replace(r, post, t) == SavePostInsert(post, t)

\* the SET list of SavePost's ON CONFLICT(id) DO UPDATE
SavePostUpdate(r, post, t) ==
    [r EXCEPT !.type = post.Type, !.post_type = post.PostType, !.title = post.Title,
        !.patreon_url = post.PatreonURL, !.current_user_can_view = post.CurrentUserCanView,
        !.published_at = post.PublishedAt, !.cached_at = t]

\* INSERT INTO posts ... ON CONFLICT(id) DO UPDATE SET ...
SavePostRows(rows, post, t) ==
    IF RowsById(rows, post.ID) # {}
    THEN {IF r.id = post.ID THEN SavePostUpdate(r, post, t) ELSE r : r \in rows}
    ELSE rows \cup {SavePostInsert(post, t)}

\* SavePostDetails as an upsert: a row is created when none has the id
SavePostDetailsRows_Upsert(rows, postID, description, youtubeLinks) ==
    IF RowsById(rows, postID) = {}
    THEN rows \cup {[SavePostInsert([ZeroCachedPost EXCEPT !.ID = postID], 0) EXCEPT
                        !.description = ValidString(description),
                        !.youtube_links = ValidString(youtubeLinks), !.details_cached = TRUE]}
    ELSE {IF r.id = postID
          THEN [r EXCEPT !.description = ValidString(description),
                         !.youtube_links = ValidString(youtubeLinks), !.details_cached = TRUE]
          ELSE r : r \in rows}

\* UPDATE posts SET description, youtube_links, details_cached = TRUE WHERE id = ?
SavePostDetailsRows(rows, postID, description, youtubeLinks) ==
    {IF r.id = postID
     THEN [r EXCEPT !.description = ValidString(description),
                    !.youtube_links = ValidString(youtubeLinks), !.details_cached = TRUE]
     ELSE r : r \in rows}

\* ClearPostDetails that nulls the detail and leaves details_cached set
ClearPostDetailsRows_KeepFlag(rows, postID) ==
    {IF r.id = postID
     THEN [r EXCEPT !.description = NullString, !.youtube_links = NullText]
     ELSE r : r \in rows}

\* ClearPostDetails without its WHERE clause
ClearPostDetailsRows_AllRows(rows, postID) ==
    {[r EXCEPT !.description = NullString, !.youtube_links = NullText, !.details_cached = FALSE]
       : r \in rows}

\* UPDATE posts SET description = NULL, youtube_links = NULL, details_cached = FALSE WHERE id = ?
ClearPostDetailsRows(rows, postID) ==
    {IF r.id = postID
     THEN [r EXCEPT !.description = NullString, !.youtube_links = NullText, !.details_cached = FALSE]
     ELSE r : r \in rows}

\* DELETE FROM posts WHERE campaign_id = ?
DeletePostsRows(rows, campaignID) == {r \in rows : r.campaign_id # campaignID}

\* DELETE FROM campaigns WHERE id = ?
DeleteCampaignRows(rows, campaignID) == {r \in rows : r.id # campaignID}

\* a Scan that drops the scanned links
ScanPost_NoLinks(r) ==
    [ID |-> r.id, CampaignID |-> r.campaign_id, Type |-> r.type, PostType |-> r.post_type,
     Title |-> r.title, PatreonURL |-> r.patreon_url, CurrentUserCanView |-> r.current_user_can_view,
     PublishedAt |-> r.published_at,
     Description |-> IF r.description.valid THEN r.description.str ELSE "",
     YouTubeLinks |-> << >>,
     CachedAt |-> r.cached_at, DetailsCached |-> r.details_cached]

\* row.Scan into a CachedPost: NULL description and youtube_links scan as ""
ScanPost(r) ==
    [ID |-> r.id, CampaignID |-> r.campaign_id, Type |-> r.type, PostType |-> r.post_type,
     Title |-> r.title, PatreonURL |-> r.patreon_url, CurrentUserCanView |-> r.current_user_can_view,
     PublishedAt |-> r.published_at,
     Description |-> IF r.description.valid THEN r.description.str ELSE "",
     YouTubeLinks |-> IF r.youtube_links.valid THEN r.youtube_links.str ELSE << >>,
     CachedAt |-> r.cached_at, DetailsCached |-> r.details_cached]

\* GetPost: (nil, nil) when no row has the id
GetPost(rows, postID) ==
    IF RowsById(rows, postID) = {} THEN [found |-> FALSE, err |-> FALSE, post |-> ZeroCachedPost]
    ELSE [found |-> TRUE, err |-> FALSE, post |-> ScanPost(CHOOSE r \in RowsById(rows, postID) : TRUE)]

\* IsPostDetailsCached: (false, nil) when no row has the id
IsPostDetailsCached(rows, postID) ==
    IF RowsById(rows, postID) = {} THEN [cached |-> FALSE, err |-> FALSE]
    ELSE [cached |-> (CHOOSE r \in RowsById(rows, postID) : TRUE).details_cached, err |-> FALSE]

RECURSIVE SortByPublishedDesc(_)
\* ORDER BY published_at DESC (rows of equal time in the order the engine yields)
SortByPublishedDesc(rows) ==
    IF rows = {} THEN << >>
    ELSE LET r == CHOOSE x \in rows : \A y \in rows : x.published_at >= y.published_at
         IN <<ScanPost(r)>> \o SortByPublishedDesc(rows \ {r})

\* GetPostsByCampaign
GetPostsByCampaign(rows, campaignID) ==
    SortByPublishedDesc({r \in rows : r.campaign_id = campaignID})

\* ClearCampaignCache deleting the parent row first
ClearCampaignStmt_ParentFirst(step) == IF step = 1 THEN "campaigns" ELSE "posts"

\* the statement ClearCampaignCache runs at each of its two steps
ClearCampaignStmt(step) == IF step = 1 THEN "posts" ELSE "campaigns"

Idle == [pc |-> "idle", cid |-> ""]

NoCall == [op |-> "", id |-> "", err |-> FALSE, step |-> 0]

StoreInit ==
    /\ campaigns = {}
    /\ posts = {}
    /\ now = 0
    /\ call = Idle
    /\ last = NoCall

\* time passes between two calls
Tick ==
    /\ call = Idle
    /\ now < MaxClock
    /\ now' = now + 1
    /\ last' = [NoCall EXCEPT !.op = "Tick"]
    /\ UNCHANGED <<campaigns, posts, call, extractVars, fetchVars, batchVars, uiVars>>

\* a statement fails (fail = TRUE: the engine reports an error and changes
\* nothing) or runs.  A failed single-statement operation leaves the store as
\* it was, so Next draws failures only for the two statements of
\* ClearCampaignCache, where the first can run and the second fail.
SaveCampaign(id, name, fail) ==
    /\ call = Idle
    /\ campaigns' = IF fail THEN campaigns ELSE SaveCampaignRows(campaigns, id, name, now)
    /\ last' = [NoCall EXCEPT !.op = "SaveCampaign", !.id = id, !.err = fail]
    /\ UNCHANGED <<posts, now, call, extractVars, fetchVars, batchVars, uiVars>>

SavePost(post, fail) ==
    /\ call = Idle
    /\ posts' = IF fail THEN posts ELSE SavePostRows(posts, post, now)
    /\ last' = [NoCall EXCEPT !.op = "SavePost", !.id = post.ID, !.err = fail]
    /\ UNCHANGED <<campaigns, now, call, extractVars, fetchVars, batchVars, uiVars>>

SavePostDetails(postID, description, youtubeLinks, fail) ==
    /\ call = Idle
    /\ posts' = IF fail THEN posts ELSE SavePostDetailsRows(posts, postID, description, youtubeLinks)
    /\ last' = [NoCall EXCEPT !.op = "SavePostDetails", !.id = postID, !.err = fail]
    /\ UNCHANGED <<campaigns, now, call, extractVars, fetchVars, batchVars, uiVars>>

ClearPostDetails(postID, fail) ==
    /\ call = Idle
    /\ posts' = IF fail THEN posts ELSE ClearPostDetailsRows(posts, postID)
    /\ last' = [NoCall EXCEPT !.op = "ClearPostDetails", !.id = postID, !.err = fail]
    /\ UNCHANGED <<campaigns, now, call, extractVars, fetchVars, batchVars, uiVars>>

\* one statement of ClearCampaignCache(campaignID): the first on entry, the
\* second when the first returned no error
ClearCampaignExec(campaignID, step, fail) ==
    /\ posts' = IF ~fail /\ ClearCampaignStmt(step) = "posts"
                THEN DeletePostsRows(posts, campaignID) ELSE posts
    /\ campaigns' = IF ~fail /\ ClearCampaignStmt(step) = "campaigns"
                    THEN DeleteCampaignRows(campaigns, campaignID) ELSE campaigns
    /\ IF step = 1 /\ ~fail
       THEN /\ call' = [pc |-> "second", cid |-> campaignID]
            /\ last' = [NoCall EXCEPT !.op = "ClearCampaignCache:1", !.id = campaignID]
       ELSE /\ call' = Idle
            /\ last' = [NoCall EXCEPT !.op = "ClearCampaignCache", !.id = campaignID, !.err = fail,
                           !.step = step]
    /\ UNCHANGED <<now, extractVars, fetchVars, batchVars, uiVars>>

ClearCampaignCacheBegin(campaignID, fail) ==
    /\ call = Idle
    /\ ClearCampaignExec(campaignID, 1, fail)

ClearCampaignCacheEnd(fail) ==
    /\ call.pc = "second"
    /\ ClearCampaignExec(call.cid, 2, fail)

(***************************************************************************)
(* Link extraction: internal/api/client.go.  The content is a sequence of  *)
(* characters and the patterns are matched character by character.         *)
(***************************************************************************)
\* bound: number of URL-like fragments an input text is built from
MaxUrls == 2

\* {11} in the patterns: the length of a video id
IdLen == 11

\* [a-zA-Z0-9_-]
IdChars ==
    { "a", "b", "c", "d", "e", "f", "g", "h", "i", "j", "k", "l", "m", "n", "o", "p",
      "q", "r", "s", "t", "u", "v", "w", "x", "y", "z", "A", "B", "C", "D", "E", "F",
      "G", "H", "I", "J", "K", "L", "M", "N", "O", "P", "Q", "R", "S", "T", "U", "V",
      "W", "X", "Y", "Z", "0", "1", "2", "3", "4", "5", "6", "7", "8", "9", "_", "-" }

\* the patterns, in the order of the slice: https?://(?:www\.)?<lit>([a-zA-Z0-9_-]{11}),
\* where the third has no optional www.
youtubePatterns ==
    << [www |-> TRUE,  lit |-> <<"y", "o", "u", "t", "u", "b", "e", ".", "c", "o", "m", "/", "w", "a", "t", "c", "h", "?", "v", "=">>],
       [www |-> TRUE,  lit |-> <<"y", "o", "u", "t", "u", "b", "e", ".", "c", "o", "m", "/", "e", "m", "b", "e", "d", "/">>],
       [www |-> FALSE, lit |-> <<"y", "o", "u", "t", "u", ".", "b", "e", "/">>],
       [www |-> TRUE,  lit |-> <<"y", "o", "u", "t", "u", "b", "e", ".", "c", "o", "m", "/", "v", "/">>],
       [www |-> TRUE,  lit |-> <<"y", "o", "u", "t", "u", "b", "e", ".", "c", "o", "m", "/", "s", "h", "o", "r", "t", "s", "/">>] >>

\* s has the literal lit at position i
HasAt(s, i, lit) == i + Len(lit) - 1 <= Len(s) /\ SubSeq(s, i, i + Len(lit) - 1) = lit

\* the position after an optional literal at position i (the greedy choice;
\* what follows an optional part in these patterns never starts like it, so
\* backtracking finds nothing else)
SkipOpt(s, i, lit) == IF HasAt(s, i, lit) THEN i + Len(lit) ELSE i

\* the match of one pattern starting exactly at position i: end = 0 if none,
\* else the position after the match, with the captured id
MatchAt(pat, s, i) ==
    LET none == [end |-> 0, id |-> << >>]
        p1 == i + 4
        p2 == SkipOpt(s, p1, <<"s">>)
        p3 == p2 + 3
        p4 == IF pat.www THEN SkipOpt(s, p3, <<"w", "w", "w", ".">>) ELSE p3
        p5 == p4 + Len(pat.lit)
    IN  IF s[i] # "h" THEN none
        ELSE IF ~HasAt(s, i, <<"h", "t", "t", "p">>) THEN none
        ELSE IF ~HasAt(s, p2, <<":", "/", "/">>) THEN none
        ELSE IF ~HasAt(s, p4, pat.lit) THEN none
        ELSE IF p5 + IdLen - 1 > Len(s) THEN none
        ELSE IF \E j \in p5 .. (p5 + IdLen - 1) : s[j] \notin IdChars THEN none
        ELSE [end |-> p5 + IdLen, id |-> SubSeq(s, p5, p5 + IdLen - 1)]

RECURSIVE FindAllFrom(_, _, _)
\* leftmost, non-overlapping matches from position i on
FindAllFrom(pat, s, i) ==
    LET starts == {j \in i..Len(s) : MatchAt(pat, s, j).end # 0} IN
    IF starts = {} THEN << >>
    ELSE LET first == CHOOSE j \in starts : \A k \in starts : j <= k
             m == MatchAt(pat, s, first)
         IN  <<[pos |-> first, id |-> m.id]>> \o FindAllFrom(pat, s, m.end)

\* pattern.FindAllStringSubmatch(content, -1)
FindAllStringSubmatch(pat, s) == FindAllFrom(pat, s, 1)

\* "https://www.youtube.com/watch?v="
WatchPrefix == <<"h", "t", "t", "p", "s", ":", "/", "/", "w", "w", "w", ".", "y", "o", "u", "t", "u", "b", "e", ".", "c", "o", "m", "/", "w", "a", "t", "c", "h", "?", "v", "=">>

RECURSIVE ExtractMatches_NoSeen(_, _)
\* the inner loop without the seen check
ExtractMatches_NoSeen(matches, acc) ==
    IF matches = << >> THEN acc
    ELSE ExtractMatches_NoSeen(Tail(matches),
            [seen |-> acc.seen \cup {Head(matches).id},
             links |-> Append1(acc.links, WatchPrefix \o Head(matches).id)])

RECURSIVE ExtractMatches(_, _)
\* the inner loop: for _, match := range matches
ExtractMatches(matches, acc) ==
    IF matches = << >> THEN acc
    ELSE LET videoID == Head(matches).id
             fullURL == WatchPrefix \o videoID
         IN  ExtractMatches(Tail(matches),
                IF videoID \notin acc.seen
                THEN [seen |-> acc.seen \cup {videoID}, links |-> Append1(acc.links, fullURL)]
                ELSE acc)

RECURSIVE ExtractPatterns(_, _, _)
\* the outer loop: for _, pattern := range youtubePatterns
ExtractPatterns(patterns, text, acc) ==
    IF patterns = << >> THEN acc
    ELSE ExtractPatterns(Tail(patterns), text,
            ExtractMatches(FindAllStringSubmatch(Head(patterns), text), acc))

\* ExtractYouTubeLinks(content)
ExtractYouTubeLinks(text) ==
    ExtractPatterns(youtubePatterns, text, [seen |-> {}, links |-> NilSlice]).links

\* what precedes a video id in the input texts: the five shapes, and two
\* that no pattern accepts
UrlPrefixes ==
    { <<"h", "t", "t", "p", "s", ":", "/", "/", "w", "w", "w", ".", "y", "o", "u", "t", "u", "b", "e", ".", "c", "o", "m", "/", "w", "a", "t", "c", "h", "?", "v", "=">>,
      <<"h", "t", "t", "p", ":", "/", "/", "y", "o", "u", "t", "u", "b", "e", ".", "c", "o", "m", "/", "e", "m", "b", "e", "d", "/">>,
      <<"h", "t", "t", "p", "s", ":", "/", "/", "y", "o", "u", "t", "u", ".", "b", "e", "/">>,
      <<"h", "t", "t", "p", "s", ":", "/", "/", "w", "w", "w", ".", "y", "o", "u", "t", "u", "b", "e", ".", "c", "o", "m", "/", "v", "/">>,
      <<"h", "t", "t", "p", ":", "/", "/", "w", "w", "w", ".", "y", "o", "u", "t", "u", "b", "e", ".", "c", "o", "m", "/", "s", "h", "o", "r", "t", "s", "/">>,
      <<"h", "t", "t", "p", "s", ":", "/", "/", "w", "w", "w", ".", "y", "o", "u", "t", "u", ".", "b", "e", "/">> }

\* what follows the prefix: an id and a query parameter, an id with the next
\* fragment right behind it, and a run that is one character short of an id
UrlTails ==
    { <<"d", "Q", "w", "4", "w", "9", "W", "g", "X", "c", "Q", "&", "t", "=", "1", " ">>,
      <<"a", "_", "b", "-", "c", "_", "d", "-", "e", "_", "f">>,
      <<"d", "Q", "w", "4", "w", "9", "W", "g", "X", "c">> }

Fragments == {p \o t : p \in UrlPrefixes, t \in UrlTails}

\* the input texts: up to MaxUrls fragments, one after the other
Texts == UNION {{Concat(fs) : fs \in [1..n -> Fragments]} : n \in 0..MaxUrls}

ExtractIdle ==
    /\ content = << >>
    /\ links = NilSlice
    /\ xpc = "idle"

ExtractInit ==
    /\ content \in Texts
    /\ links = NilSlice
    /\ xpc = "call"

\* details.YouTubeLinks = ExtractYouTubeLinks(allContent)
Extract ==
    /\ xpc = "call"
    /\ links' = ExtractYouTubeLinks(content)
    /\ xpc' = "done"
    /\ UNCHANGED <<content, storeVars, fetchVars, batchVars, uiVars>>

(***************************************************************************)
(* Listing a page: FetchPosts and extractCursorFromURL of                  *)
(* internal/api/client.go, with net/url as they use it.                    *)
(***************************************************************************)
\* bound: number of query parameters of a next link
MaxParams == 2

\* strings.Index(s, c) + 1: the position of the first c in s, 0 if none
IndexOf(s, c) == IF \E i \in 1..Len(s) : s[i] = c THEN CHOOSE i \in 1..Len(s) : s[i] = c /\ \A j \in 1..(i - 1) : s[j] # c ELSE 0

\* strings.Cut(s, c): what precedes the first c and what follows it
Cut(s, c) ==
    IF IndexOf(s, c) = 0 THEN [before |-> s, after |-> << >>, found |-> FALSE]
    ELSE [before |-> SubSeq(s, 1, IndexOf(s, c) - 1), after |-> SubSeq(s, IndexOf(s, c) + 1, Len(s)), found |-> TRUE]

HexDigits == {"0", "1", "2", "3", "4", "5", "6", "7", "8", "9",
              "a", "b", "c", "d", "e", "f", "A", "B", "C", "D", "E", "F"}

\* the character a %XX escape stands for; the escapes of [ and ] are the
\* ones a next link carries, any other valid escape is some other character
UnescapeHex(h1, h2) ==
    IF h1 = "5" /\ h2 \in {"B", "b"} THEN "["
    ELSE IF h1 = "5" /\ h2 \in {"D", "d"} THEN "]"
    ELSE "?"

RECURSIVE Unescape(_, _)
\* url.QueryUnescape (plus = TRUE) and the path unescape of url.Parse
\* (plus = FALSE): a % not followed by two hex digits is an error
Unescape(s, plus) ==
    IF s = << >> THEN [err |-> FALSE, val |-> << >>]
    ELSE IF Head(s) = "%" THEN
        IF Len(s) < 3 \/ s[2] \notin HexDigits \/ s[3] \notin HexDigits
        THEN [err |-> TRUE, val |-> << >>]
        ELSE LET r == Unescape(SubSeq(s, 4, Len(s)), plus) IN
             [err |-> r.err, val |-> IF r.err THEN << >> ELSE <<UnescapeHex(s[2], s[3])>> \o r.val]
    ELSE LET r == Unescape(Tail(s), plus) IN
         [err |-> r.err,
          val |-> IF r.err THEN << >>
                  ELSE <<IF plus /\ Head(s) = "+" THEN " " ELSE Head(s)>> \o r.val]

RECURSIVE ParseQuery(_)
\* url.ParseQuery as Query() uses it, the error dropped: the key/value pairs
\* in order; a pair with a semicolon or a bad escape is left out
ParseQuery(query) ==
    IF query = << >> THEN << >>
    ELSE LET c == Cut(query, "&")
             kv == Cut(c.before, "=")
             k == Unescape(kv.before, TRUE)
             v == Unescape(kv.after, TRUE)
         IN  IF IndexOf(c.before, ";") # 0 THEN ParseQuery(c.after)
             ELSE IF c.before = << >> THEN ParseQuery(c.after)
             ELSE IF k.err \/ v.err THEN ParseQuery(c.after)
             ELSE <<[key |-> k.val, value |-> v.val]>> \o ParseQuery(c.after)

\* Values.Get(key): the first value of the key, "" if there is none
QueryGet(pairs, key) ==
    IF \E i \in 1..Len(pairs) : pairs[i].key = key
    THEN pairs[CHOOSE i \in 1..Len(pairs) : pairs[i].key = key /\ \A j \in 1..(i - 1) : pairs[j].key # key].value
    ELSE << >>

\* url.Parse: the fragment is cut off; a control character, a leading colon
\* (missing protocol scheme) or a bad escape in the path is an error;
\* otherwise what follows the first ? is the raw query
UrlParse(rawURL) ==
    LET u == Cut(rawURL, "#").before
        q == Cut(u, "?")
    IN  IF \E i \in 1..Len(u) : u[i] = "\n" THEN [err |-> TRUE, RawQuery |-> << >>]
        ELSE IF u # << >> /\ u[1] = ":" THEN [err |-> TRUE, RawQuery |-> << >>]
        ELSE IF Unescape(q.before, FALSE).err THEN [err |-> TRUE, RawQuery |-> << >>]
        ELSE [err |-> FALSE, RawQuery |-> q.after]

\* "page[cursor]"
PageCursorKey == <<"p", "a", "g", "e", "[", "c", "u", "r", "s", "o", "r", "]">>

\* extractCursorFromURL that reads the query although url.Parse failed
extractCursorFromURL_NoErrCheck(nextURL) ==
    IF nextURL = << >> THEN << >>
    ELSE QueryGet(ParseQuery(Cut(Cut(nextURL, "#").before, "?").after), PageCursorKey)

\* extractCursorFromURL
extractCursorFromURL(nextURL) ==
    IF nextURL = << >> THEN << >>
    ELSE IF UrlParse(nextURL).err THEN << >>
    ELSE QueryGet(ParseQuery(UrlParse(nextURL).RawQuery), PageCursorKey)

\* http.StatusOK
StatusOK == 200

\* the page[cursor] parameter FetchPosts sends: "null" for the first page
RequestCursor(cursor) == IF cursor = << >> THEN <<"n", "u", "l", "l">> ELSE cursor

\* FetchPosts(campaignID, count, cursor) against a remote that answers r:
\* a transport failure, a status other than 200 and a body that does not
\* parse are errors; otherwise the page
FetchPosts(cursor, r) ==
    LET noPage == [Posts |-> << >>, NextCursor |-> << >>, HasMore |-> FALSE, Total |-> 0]
        sent == RequestCursor(cursor)
    IN  IF r.transportErr THEN [err |-> "request", sent |-> sent, page |-> noPage]
        ELSE IF r.StatusCode # StatusOK THEN [err |-> "status", sent |-> sent, page |-> noPage]
        ELSE IF ~r.bodyValid THEN [err |-> "parse", sent |-> sent, page |-> noPage]
        ELSE [err |-> "", sent |-> sent,
              page |-> [Posts |-> r.Data,
                        NextCursor |-> extractCursorFromURL(r.Next),
                        HasMore |-> r.Next # << >>,
                        Total |-> 0]]

\* what a next link starts with: a URL, and two that url.Parse rejects
\* (missing protocol scheme, control character)
NextBases ==
    { [raw |-> <<"h", "t", "t", "p", "s", ":", "/", "/", "h", "/", "p">>, ok |-> TRUE],
      [raw |-> <<":", "h", "/", "p">>, ok |-> FALSE],
      [raw |-> <<"h", "t", "t", "p", "s", ":", "/", "/", "h", "/", "\n", "p">>, ok |-> FALSE] }

\* query parameters of a next link: raw text, whether it is a well-formed
\* page[cursor] pair, and the cursor it then carries
NextParams ==
    { [raw |-> <<"p", "a", "g", "e", "%", "5", "B", "c", "u", "r", "s", "o", "r", "%", "5", "D", "=", "c", "1">>, cursor |-> TRUE, val |-> <<"c", "1">>],
      [raw |-> <<"p", "a", "g", "e", "[", "c", "u", "r", "s", "o", "r", "]", "=", "c", "2">>, cursor |-> TRUE, val |-> <<"c", "2">>],
      [raw |-> <<"p", "a", "g", "e", "%", "5", "B", "c", "u", "r", "s", "o", "r", "%", "5", "D", "=">>, cursor |-> TRUE, val |-> << >>],
      [raw |-> <<"s", "o", "r", "t", "=", "-", "x">>, cursor |-> FALSE, val |-> << >>],
      [raw |-> <<"p", "a", "g", "e", "%", "5", "B", "c", "u", "r", "s", "o", "r", "%", "5", "=", "c", "3">>, cursor |-> FALSE, val |-> << >>],
      [raw |-> <<"p", "a", "g", "e", "%", "5", "B", "c", "u", "r", "s", "o", "r", "%", "5", "D", "=", "c", "4", ";", "y">>, cursor |-> FALSE, val |-> << >>] }

RECURSIVE JoinParams(_)
JoinParams(ps) ==
    IF ps = << >> THEN << >>
    ELSE IF Len(ps) = 1 THEN ps[1].raw
    ELSE ps[1].raw \o <<"&">> \o JoinParams(Tail(ps))

\* the text of a next link; absent = TRUE is a response without links.next
NextLink(parts) ==
    IF parts.absent THEN << >>
    ELSE IF parts.params = << >> THEN parts.base.raw
    ELSE parts.base.raw \o <<"?">> \o JoinParams(parts.params)

NextPartsSet ==
    {[absent |-> TRUE, base |-> CHOOSE b \in NextBases : b.ok, params |-> << >>]}
    \cup {[absent |-> FALSE, base |-> b, params |-> ps] :
             b \in NextBases, ps \in UNION {[1..n -> NextParams] : n \in 0..MaxParams}}

\* the answers of the remote
Responses(parts) ==
    {[transportErr |-> t, StatusCode |-> st, bodyValid |-> bv, Data |-> d, Next |-> NextLink(parts)] :
        t \in BOOLEAN, st \in {200, 403}, bv \in BOOLEAN, d \in {<< >>, <<"p1", "p2">>}}

NoFetch == [err |-> "", sent |-> << >>,
            page |-> [Posts |-> << >>, NextCursor |-> << >>, HasMore |-> FALSE, Total |-> 0]]

FetchIdle ==
    /\ nextParts = [absent |-> TRUE, base |-> CHOOSE b \in NextBases : b.ok, params |-> << >>]
    /\ resp = [transportErr |-> FALSE, StatusCode |-> 200, bodyValid |-> TRUE, Data |-> << >>, Next |-> << >>]
    /\ reqCursor = << >>
    /\ fetched = NoFetch
    /\ fpc = "idle"

FetchInit ==
    /\ nextParts \in NextPartsSet
    /\ resp \in Responses(nextParts)
    /\ reqCursor \in {<< >>, <<"c", "1">>}
    /\ fetched = NoFetch
    /\ fpc = "call"

\* page, err := client.FetchPosts(campaignID, count, cursor)
Fetch ==
    /\ fpc = "call"
    /\ fetched' = FetchPosts(reqCursor, resp)
    /\ fpc' = "done"
    /\ UNCHANGED <<nextParts, resp, reqCursor, storeVars, extractVars, batchVars, uiVars>>

(***************************************************************************)
(* A post's detail: FetchPostDetails and stripHTML of                      *)
(* internal/api/client.go.                                                 *)
(***************************************************************************)
UpperLetters == <<"A", "B", "C", "D", "E", "F", "G", "H", "I", "J", "K", "L", "M", "N", "O", "P", "Q", "R", "S", "T", "U", "V", "W", "X", "Y", "Z">>

LowerLetters == <<"a", "b", "c", "d", "e", "f", "g", "h", "i", "j", "k", "l", "m", "n", "o", "p", "q", "r", "s", "t", "u", "v", "w", "x", "y", "z">>

\* case folding of the (?i) flag, for the letters of the tag names
ToLower(c) ==
    IF \E k \in 1..26 : UpperLetters[k] = c
    THEN LowerLetters[CHOOSE k \in 1..26 : UpperLetters[k] = c] ELSE c

\* lit (lower case) stands at position i of s, whatever the case of s
HasAtCI(s, i, lit) ==
    /\ i + Len(lit) - 1 <= Len(s)
    /\ \A k \in 1..Len(lit) : ToLower(s[i + k - 1]) = lit[k]

\* position of the first c at or after i, 0 when there is none
IndexFrom(s, i, c) ==
    IF \E j \in i..Len(s) : s[j] = c
    THEN CHOOSE j \in i..Len(s) : s[j] = c /\ \A k \in i..(j - 1) : s[k] # c ELSE 0

\* position of the first lit at or after i, whatever the case, 0 when none
IndexCIFrom(s, i, lit) ==
    IF \E j \in i..Len(s) : HasAtCI(s, j, lit)
    THEN CHOOSE j \in i..Len(s) : HasAtCI(s, j, lit) /\ \A k \in i..(j - 1) : ~HasAtCI(s, k, lit)
    ELSE 0

\* (?i)<script[^>]*>[\s\S]*?</script> at position i: the position after
\* the match, 0 when it does not match there
BlockEnd(s, i, open, close) ==
    IF ~HasAtCI(s, i, open) THEN 0
    ELSE LET g == IndexFrom(s, i + Len(open), ">")
             e == IF g = 0 THEN 0 ELSE IndexCIFrom(s, g + 1, close)
         IN  IF e = 0 THEN 0 ELSE e + Len(close)

RECURSIVE RemoveBlocks(_, _, _, _)
\* scriptTagRe.ReplaceAllString(html, "") and styleTagRe.ReplaceAllString
RemoveBlocks(s, i, open, close) ==
    IF i > Len(s) THEN << >>
    ELSE LET e == BlockEnd(s, i, open, close)
         IN  IF e > 0 THEN RemoveBlocks(s, e, open, close)
             ELSE <<s[i]>> \o RemoveBlocks(s, i + 1, open, close)

RECURSIVE RemoveTags(_, _)
\* htmlTagRe.ReplaceAllString(html, ""): <[^>]+>
RemoveTags(s, i) ==
    IF i > Len(s) THEN << >>
    ELSE LET g == IF s[i] = "<" THEN IndexFrom(s, i + 1, ">") ELSE 0
         IN  IF g > i + 1 THEN RemoveTags(s, g + 1)
             ELSE <<s[i]>> \o RemoveTags(s, i + 1)

RECURSIVE ReplaceAll(_, _, _)
\* strings.ReplaceAll(s, old, new)
ReplaceAll(s, old, new) ==
    IF s = << >> THEN << >>
    ELSE IF HasAt(s, 1, old) THEN new \o ReplaceAll(SubSeq(s, Len(old) + 1, Len(s)), old, new)
    ELSE <<Head(s)>> \o ReplaceAll(Tail(s), old, new)

\* the entities stripHTML decodes, in its order
Entities ==
    << [old |-> <<"&", "n", "b", "s", "p", ";">>, new |-> <<" ">>],
       [old |-> <<"&", "a", "m", "p", ";">>, new |-> <<"&">>],
       [old |-> <<"&", "l", "t", ";">>, new |-> <<"<">>],
       [old |-> <<"&", "g", "t", ";">>, new |-> <<">">>],
       [old |-> <<"&", "q", "u", "o", "t", ";">>, new |-> <<"\"">>],
       [old |-> <<"&", "#", "3", "9", ";">>, new |-> <<"'">>] >>

RECURSIVE DecodeEntities(_, _)
DecodeEntities(s, k) ==
    IF k > Len(Entities) THEN s
    ELSE DecodeEntities(ReplaceAll(s, Entities[k].old, Entities[k].new), k + 1)

\* \s of the regexp package
IsSpace(c) == c \in {" ", "\t", "\n", "\r", "\f"}

RECURSIVE CollapseSpace(_)
\* whitespaceRe.ReplaceAllString(text, " ")
CollapseSpace(s) ==
    IF s = << >> THEN << >>
    ELSE IF IsSpace(Head(s))
    THEN IF Len(s) > 1 /\ IsSpace(s[2]) THEN CollapseSpace(Tail(s))
         ELSE <<" ">> \o CollapseSpace(Tail(s))
    ELSE <<Head(s)>> \o CollapseSpace(Tail(s))

RECURSIVE TrimSpace(_)
\* strings.TrimSpace
TrimSpace(s) ==
    IF s # << >> /\ IsSpace(Head(s)) THEN TrimSpace(Tail(s))
    ELSE IF s # << >> /\ IsSpace(s[Len(s)]) THEN TrimSpace(SubSeq(s, 1, Len(s) - 1))
    ELSE s

\* stripHTML
stripHTML(html) ==
    LET noScript == RemoveBlocks(html, 1, <<"<", "s", "c", "r", "i", "p", "t">>,
                                 <<"<", "/", "s", "c", "r", "i", "p", "t", ">">>)
        noStyle == RemoveBlocks(noScript, 1, <<"<", "s", "t", "y", "l", "e">>,
                                <<"<", "/", "s", "t", "y", "l", "e", ">">>)
    IN  TrimSpace(CollapseSpace(DecodeEntities(RemoveTags(noStyle, 1), 1)))

\* the zero value of models.PostDetails
ZeroPostDetails == [ID |-> "", Content |-> << >>, Description |-> << >>, YouTubeLinks |-> NilSlice]

\* FetchPostDetails(postID) against a remote that answers r
FetchPostDetails(postID, r) ==
    IF r.transportErr THEN [err |-> "request", details |-> ZeroPostDetails]
    ELSE IF r.StatusCode # StatusOK THEN [err |-> "status", details |-> ZeroPostDetails]
    ELSE IF ~r.bodyValid THEN [err |-> "parse", details |-> ZeroPostDetails]
    ELSE LET allContent == IF r.EmbedURL # << >> THEN r.Content \o <<" ">> \o r.EmbedURL
                           ELSE r.Content
         IN  [err |-> "",
              details |-> [ID |-> r.ID, Content |-> r.Content,
                           Description |-> stripHTML(r.Content),
                           YouTubeLinks |-> ExtractYouTubeLinks(allContent)]]

(***************************************************************************)
(* The batch workflow: ExtractYouTubeLinks and extractLinksFromCampaign of *)
(* package cli.  A time is the number yyyymmdd of its day.                 *)
(***************************************************************************)
Digits == <<"0", "1", "2", "3", "4", "5", "6", "7", "8", "9">>

IsDigit(c) == \E k \in 1..10 : Digits[k] = c

DigitVal(c) == (CHOOSE k \in 1..10 : Digits[k] = c) - 1

RECURSIVE Atoi(_)
Atoi(s) == IF s = << >> THEN 0 ELSE 10 * Atoi(SubSeq(s, 1, Len(s) - 1)) + DigitVal(s[Len(s)])

IsLeap(y) == y % 4 = 0 /\ (y % 100 # 0 \/ y % 400 = 0)

DaysIn(m, y) ==
    IF m = 2 THEN (IF IsLeap(y) THEN 29 ELSE 28)
    ELSE IF m \in {4, 6, 9, 11} THEN 30 ELSE 31

\* time.Time{}: January 1 of year 1
ZeroTime == 10101

IsZero(t) == t = ZeroTime

\* Before that also holds of equal times
Before_OrEqual(t, u) == t <= u

\* t.Before(u)
Before(t, u) == t < u

\* time.Parse("2006-01-02", value): four digits, two digits, two digits,
\* month and day in range, nothing after
ParseDate(value) ==
    LET shape == /\ Len(value) = 10
                 /\ \A i \in {1, 2, 3, 4, 6, 7, 9, 10} : IsDigit(value[i])
                 /\ value[5] = "-" /\ value[8] = "-"
        y == Atoi(SubSeq(value, 1, 4))
        m == Atoi(SubSeq(value, 6, 7))
        d == Atoi(SubSeq(value, 9, 10))
    IN  IF shape /\ m \in 1..12 /\ d \in 1..DaysIn(m, y)
        THEN [err |-> FALSE, time |-> y * 10000 + m * 100 + d]
        ELSE [err |-> TRUE, time |-> ZeroTime]

MaxCampaigns == 2

BatchPostIds == {"p1", "p2", "p3", "p4"}

\* publish times of the listed posts and the cutoff the inputs name:
\* after it, exactly at it, before it
DayAfter == 20240601

DayCutoff == 20240101

DayBefore == 20231201

\* the -after argument: none, a date, a day that does not exist, another
\* notation
AfterDates ==
    { << >>,
      <<"2", "0", "2", "4", "-", "0", "1", "-", "0", "1">>,
      <<"2", "0", "2", "4", "-", "0", "2", "-", "3", "0">>,
      <<"0", "1", "/", "0", "1", "/", "2", "0", "2", "4">> }

\* cfg.Campaigns: the configured ids, in order; an id may be listed twice
CampaignLists == UNION {[1..n -> CampaignIds] : n \in 0..MaxCampaigns}

\* links.next of a listed page: a link with the cursor of the second page,
\* a link without cursor, no link
NextCursorLink == (CHOOSE b \in NextBases : b.ok).raw \o <<"?">> \o <<"p", "a", "g", "e", "%", "5", "B", "c", "u", "r", "s", "o", "r", "%", "5", "D", "=", "c", "1">>

NextPlainLink == (CHOOSE b \in NextBases : b.ok).raw \o <<"?">> \o <<"s", "o", "r", "t", "=", "-", "x">>

SecondCursor == <<"c", "1">>

\* the link and the cursor of a third page
NextThirdLink == (CHOOSE b \in NextBases : b.ok).raw \o <<"?">> \o <<"p", "a", "g", "e", "%", "5", "B", "c", "u", "r", "s", "o", "r", "%", "5", "D", "=", "c", "2">>

ThirdCursor == <<"c", "2">>

\* what the remote holds: campaign c1 has two pages, p1 and p2 on the
\* first and p3 on the second, campaign c2 one page with p4; the remote
\* sorts by engagement, so the publish times of a page come in any order
Feed(d1, d2, next) ==
    [c1 |-> << [Data |-> <<[ID |-> "p1", PublishedAt |-> d1], [ID |-> "p2", PublishedAt |-> d2]>>,
               Next |-> next],
              [Data |-> <<[ID |-> "p3", PublishedAt |-> DayAfter]>>, Next |-> << >>] >>,
     c2 |-> << [Data |-> <<[ID |-> "p4", PublishedAt |-> DayAfter]>>, Next |-> << >>] >>]

Feeds ==
    {Feed(d[1], d[2], next) :
        d \in {<<DayAfter, DayBefore>>, <<DayAfter, DayCutoff>>, <<DayBefore, DayAfter>>},
        next \in {NextCursorLink, NextPlainLink, << >>}}

\* the remote's answer to a page request of campaign cid with the sent
\* page[cursor]; fail = TRUE is a refusal
RemotePage(feed, cid, sent, fail) ==
    LET k == IF sent = RequestCursor(<< >>) THEN 1 ELSE IF sent = SecondCursor THEN 2
             ELSE IF sent = ThirdCursor THEN 3 ELSE 0
        pg == IF k \in 1..Len(feed[cid]) THEN feed[cid][k] ELSE [Data |-> << >>, Next |-> << >>]
    IN  [transportErr |-> FALSE, StatusCode |-> IF fail THEN 403 ELSE StatusOK, bodyValid |-> TRUE,
         Data |-> pg.Data, Next |-> pg.Next]

\* content and embed of the four posts
PostContents ==
    [p1 |-> [Content |-> <<"<", "p", ">", "s", "e", "e", " ", "h", "t", "t", "p", "s", ":", "/", "/", "w", "w", "w", ".", "y", "o", "u", "t", "u", "b", "e", ".", "c", "o", "m", "/", "w", "a", "t", "c", "h", "?", "v", "=", "d", "Q", "w", "4", "w", "9", "W", "g", "X", "c", "Q", "&", "a", "m", "p", ";", "t", "=", "1", " ", "<", "/", "p", ">">>,
             EmbedURL |-> <<"h", "t", "t", "p", "s", ":", "/", "/", "y", "o", "u", "t", "u", ".", "b", "e", "/", "a", "_", "b", "-", "c", "_", "d", "-", "e", "_", "f">>],
     p2 |-> [Content |-> <<"h", "t", "t", "p", ":", "/", "/", "y", "o", "u", "t", "u", "b", "e", ".", "c", "o", "m", "/", "e", "m", "b", "e", "d", "/", "a", "_", "b", "-", "c", "_", "d", "-", "e", "_", "f">>,
             EmbedURL |-> << >>],
     p3 |-> [Content |-> <<"<", "b", ">", "n", "o", " ", "&", "a", "m", "p", ";", " ", "l", "i", "n", "k", "s", "<", "/", "b", ">">>,
             EmbedURL |-> << >>],
     p4 |-> [Content |-> <<"h", "t", "t", "p", "s", ":", "/", "/", "w", "w", "w", ".", "y", "o", "u", "t", "u", "b", "e", ".", "c", "o", "m", "/", "s", "h", "o", "r", "t", "s", "/", "d", "Q", "w", "4", "w", "9", "W", "g", "X", "c", "Q">>,
             EmbedURL |-> << >>],
     p5 |-> [Content |-> <<"h", "t", "t", "p", "s", ":", "/", "/", "y", "o", "u", "t", "u", ".", "b", "e", "/", "A", "A", "A", "A", "A", "A", "A", "A", "A", "A", "A", " ", "h", "t", "t", "p", "s", ":", "/", "/", "y", "o", "u", "t", "u", ".", "b", "e", "/", "B", "B", "B", "B", "B", "B", "B", "B", "B", "B", "B">>,
             EmbedURL |-> <<"h", "t", "t", "p", "s", ":", "/", "/", "y", "o", "u", "t", "u", ".", "b", "e", "/", "C", "C", "C", "C", "C", "C", "C", "C", "C", "C", "C">>]]

\* the posts the remote has a detail for
DetailPostIds == BatchPostIds \cup {"p5"}

\* the remote's answer to a detail request; fail = TRUE is a transport error
RemoteDetail(id, fail) ==
    [transportErr |-> fail, StatusCode |-> StatusOK, bodyValid |-> TRUE, ID |-> id,
     Content |-> PostContents[id].Content, EmbedURL |-> PostContents[id].EmbedURL]

\* FetchPostDetails of each post, tabulated
DetailAnswers ==
    [id \in DetailPostIds |-> [fail \in BOOLEAN |-> FetchPostDetails(id, RemoteDetail(id, fail))]]

\* string(json.Marshal(details.YouTubeLinks)) of each post's fetched links,
\* tabulated, and json.Unmarshal of these texts
DetailLinkJSON == [id \in DetailPostIds |-> Marshal(DetailAnswers[id][FALSE].details.YouTubeLinks)]

MarshalLinks(l) ==
    IF \E id \in DetailPostIds : DetailAnswers[id][FALSE].details.YouTubeLinks = l
    THEN DetailLinkJSON[CHOOSE id \in DetailPostIds : DetailAnswers[id][FALSE].details.YouTubeLinks = l]
    ELSE Marshal(l)

DetailUnmarshalTable == [j \in {DetailLinkJSON[id] : id \in DetailPostIds} |-> Unmarshal(j)]

UnmarshalStored(j) ==
    IF j \in DOMAIN DetailUnmarshalTable THEN DetailUnmarshalTable[j] ELSE UnmarshalLinks(j)


\* a row of posts as an earlier run of the browser or of the batch left it
BatchRow(id, cid, cached, description, youtubeLinks) ==
    [SavePostInsert([ZeroCachedPost EXCEPT !.ID = id, !.CampaignID = cid], 0) EXCEPT
        !.description = description, !.youtube_links = youtubeLinks, !.details_cached = cached]

OldDescription == <<"o", "l", "d">>

\* a link list saved earlier, and stored texts that are not a list
StoredLinks == Marshal(MkSlice(<<LinkA, LinkQ>>))

MalformedLinks == <<"[", "\"", "x">>

\* the posts table when the batch starts: empty; the four posts listed but
\* without detail; p1 with a cached link list, p2 with a cached empty text
\* and p4 with cached text that does not parse; p1 with a cached NULL list
BatchStores ==
    { {},
      {BatchRow(id, IF id = "p4" THEN "c2" ELSE "c1", FALSE, NullString, NullText) : id \in BatchPostIds},
      { BatchRow("p1", "c1", TRUE, ValidString(OldDescription), ValidString(StoredLinks)),
        BatchRow("p2", "c1", TRUE, ValidString(OldDescription), ValidString(<< >>)),
        BatchRow("p3", "c1", FALSE, NullString, NullText),
        BatchRow("p4", "c2", TRUE, ValidString(OldDescription), ValidString(MalformedLinks)) },
      { BatchRow("p1", "c1", TRUE, ValidString(OldDescription), NullText),
        BatchRow("p4", "c2", FALSE, NullString, NullText) } }

\* an entry of the trace: a page fetch, a detail fetch, a sleep, a store
\* write, the return of extractLinksFromCampaign
Event(k) == [k |-> k, cid |-> "", id |-> "", cursor |-> << >>, err |-> FALSE, links |-> NilSlice]

\* append(s, t...)
AppendAll(s, t) == IF t.elems = << >> THEN s ELSE MkSlice(s.elems \o t.elems)

RECURSIVE MergeLinks_NoSeen(_, _)
\* the merge without the check of seenLinks
MergeLinks_NoSeen(acc, ls) ==
    IF ls = << >> THEN acc
    ELSE MergeLinks_NoSeen([seen |-> acc.seen \cup {Head(ls)}, all |-> Append1(acc.all, Head(ls))], Tail(ls))

RECURSIVE MergeLinks(_, _)
\* the loop that adds a campaign's links to allLinks unless seenLinks has them
MergeLinks(acc, ls) ==
    IF ls = << >> THEN acc
    ELSE IF Head(ls) \in acc.seen THEN MergeLinks(acc, Tail(ls))
    ELSE MergeLinks([seen |-> acc.seen \cup {Head(ls)}, all |-> Append1(acc.all, Head(ls))], Tail(ls))

NoPage == [Posts |-> << >>, NextCursor |-> << >>, HasMore |-> FALSE, Total |-> 0]

\* the locals of extractLinksFromCampaign on entry
CampaignLocals == [allLinks |-> NilSlice, cursor |-> << >>, page |-> NoPage, pi |-> 1]

\* the locals of ExtractYouTubeLinks before its loop
RunLocals ==
    [filterDate |-> ZeroTime, ci |-> 1, allLinks |-> NilSlice, seenLinks |-> {}, c |-> CampaignLocals]

NoReturn == [done |-> FALSE, err |-> "", links |-> NilSlice, printed |-> ""]

BatchIdle ==
    /\ cfg = [Campaigns |-> << >>, afterDate |-> << >>]
    /\ remote = Feed(DayAfter, DayAfter, << >>)
    /\ bpc = "idle"
    /\ run = RunLocals
    /\ trace = << >>
    /\ ret = NoReturn

BatchInit ==
    /\ cfg \in [Campaigns : CampaignLists, afterDate : AfterDates]
    /\ remote \in Feeds
    /\ bpc = "start"
    /\ run = RunLocals
    /\ trace = << >>
    /\ ret = NoReturn
    /\ campaigns = {}
    /\ posts \in BatchStores
    /\ now = 0
    /\ call = Idle
    /\ last = NoCall

batchFrame == <<campaigns, now, call, last, cfg, remote, extractVars, fetchVars, uiVars>>

\* ExtractYouTubeLinks that reads a cutoff it cannot parse as no cutoff
BatchStart_NoDateCheck ==
    /\ bpc = "start"
    /\ IF Len(cfg.Campaigns) = 0
       THEN /\ ret' = [NoReturn EXCEPT !.done = TRUE, !.err = "no campaigns"]
            /\ bpc' = "done"
            /\ run' = run
       ELSE /\ run' = [run EXCEPT !.filterDate = ParseDate(cfg.afterDate).time]
            /\ bpc' = "campaign"
            /\ ret' = ret
    /\ UNCHANGED <<posts, trace, batchFrame>>

\* ExtractYouTubeLinks up to its loop: the two checks of the inputs
BatchStart ==
    /\ bpc = "start"
    /\ IF Len(cfg.Campaigns) = 0
       THEN /\ ret' = [NoReturn EXCEPT !.done = TRUE, !.err = "no campaigns"]
            /\ bpc' = "done"
            /\ run' = run
       ELSE IF cfg.afterDate # << >> /\ ParseDate(cfg.afterDate).err
       THEN /\ ret' = [NoReturn EXCEPT !.done = TRUE, !.err = "invalid date"]
            /\ bpc' = "done"
            /\ run' = run
       ELSE /\ run' = [run EXCEPT !.filterDate = IF cfg.afterDate # << >>
                                                 THEN ParseDate(cfg.afterDate).time ELSE ZeroTime]
            /\ bpc' = "campaign"
            /\ ret' = ret
    /\ UNCHANGED <<posts, trace, batchFrame>>

\* the head of the loop over cfg.Campaigns: the call of
\* extractLinksFromCampaign for the next campaign, or the end of the run
BatchCampaign ==
    /\ bpc = "campaign"
    /\ IF run.ci > Len(cfg.Campaigns)
       THEN /\ ret' = [NoReturn EXCEPT !.done = TRUE, !.links = run.allLinks,
                          !.printed = IF Len(run.allLinks.elems) = 0 THEN "no links" ELSE "links"]
            /\ bpc' = "done"
            /\ run' = run
       ELSE /\ run' = [run EXCEPT !.c = CampaignLocals]
            /\ bpc' = "page"
            /\ ret' = ret
    /\ UNCHANGED <<posts, trace, batchFrame>>

\* extractLinksFromCampaign returns allLinks and no error: the caller
\* merges the links and goes to its sleep
CampaignReturn ==
    LET cid == cfg.Campaigns[run.ci]
        m == MergeLinks([seen |-> run.seenLinks, all |-> run.allLinks], run.c.allLinks.elems)
    IN  /\ trace' = Append(trace, [Event("return") EXCEPT !.cid = cid, !.links = run.c.allLinks])
        /\ run' = [run EXCEPT !.allLinks = m.all, !.seenLinks = m.seen]
        /\ bpc' = "campaignSleep"

\* the page fetch whose failure ends the run with the error
BatchFetchPage_Abort(fail) ==
    /\ bpc = "page"
    /\ LET cid == cfg.Campaigns[run.ci]
           f == FetchPosts(run.c.cursor, RemotePage(remote, cid, RequestCursor(run.c.cursor), fail))
           ev == [Event("page") EXCEPT !.cid = cid, !.cursor = f.sent, !.err = f.err # ""]
       IN  IF f.err # ""
           THEN /\ trace' = trace \o <<ev, [Event("return") EXCEPT !.cid = cid, !.err = TRUE,
                                                                  !.links = run.c.allLinks]>>
                /\ run' = run
                /\ bpc' = "done"
                /\ ret' = [NoReturn EXCEPT !.done = TRUE, !.err = "failed to fetch posts"]
           ELSE /\ trace' = Append(trace, ev)
                /\ run' = [run EXCEPT !.c.page = f.page, !.c.pi = 1]
                /\ bpc' = "pageSleep"
                /\ ret' = ret
    /\ UNCHANGED <<posts, batchFrame>>

\* page, err := client.FetchPosts(campaignID, 50, cursor); on an error
\* extractLinksFromCampaign returns it and the caller goes on with the
\* next campaign
BatchFetchPage(fail) ==
    /\ bpc = "page"
    /\ LET cid == cfg.Campaigns[run.ci]
           f == FetchPosts(run.c.cursor, RemotePage(remote, cid, RequestCursor(run.c.cursor), fail))
           ev == [Event("page") EXCEPT !.cid = cid, !.cursor = f.sent, !.err = f.err # ""]
       IN  IF f.err # ""
           THEN /\ trace' = trace \o <<ev, [Event("return") EXCEPT !.cid = cid, !.err = TRUE,
                                                                  !.links = run.c.allLinks]>>
                /\ run' = [run EXCEPT !.ci = run.ci + 1]
                /\ bpc' = "campaign"
           ELSE /\ trace' = Append(trace, ev)
                /\ run' = [run EXCEPT !.c.page = f.page, !.c.pi = 1]
                /\ bpc' = "pageSleep"
    /\ UNCHANGED <<posts, ret, batchFrame>>

\* randomDelay(minDelayMs, maxDelayMs) after a page fetch, after a detail
\* fetch and after a campaign
BatchSleep ==
    /\ bpc \in {"pageSleep", "postSleep", "campaignSleep"}
    /\ trace' = Append(trace, Event("sleep"))
    /\ IF bpc = "campaignSleep"
       THEN /\ run' = [run EXCEPT !.ci = run.ci + 1]
            /\ bpc' = "campaign"
       ELSE /\ run' = run
            /\ bpc' = "post"
    /\ UNCHANGED <<posts, ret, batchFrame>>

\* the post the loop over page.Posts is at
AtPost == run.c.pi <= Len(run.c.page.Posts)

CurrentPost == run.c.page.Posts[run.c.pi]

BeforeCutoff == ~IsZero(run.filterDate) /\ Before(CurrentPost.PublishedAt, run.filterDate)

\* the check of the cached row with the flag read the wrong way round
HasCachedDetails_Inverted ==
    LET g == GetPost(posts, CurrentPost.ID) IN ~g.err /\ g.found /\ ~g.post.DetailsCached

\* cached, err := database.GetPost(post.ID); err == nil && cached != nil && cached.DetailsCached
HasCachedDetails ==
    LET g == GetPost(posts, CurrentPost.ID) IN ~g.err /\ g.found /\ g.post.DetailsCached

\* the page is done (variant: the cursor is not advanced)
BatchPageEnd_SameCursor ==
    /\ bpc = "post"
    /\ ~AtPost
    /\ IF ~run.c.page.HasMore \/ run.c.page.NextCursor = << >>
       THEN CampaignReturn
       ELSE /\ run' = run
            /\ bpc' = "page"
            /\ trace' = trace
    /\ UNCHANGED <<posts, ret, batchFrame>>

\* the page is done: the next page, or the end of the campaign
BatchPageEnd ==
    /\ bpc = "post"
    /\ ~AtPost
    /\ IF ~run.c.page.HasMore \/ run.c.page.NextCursor = << >>
       THEN CampaignReturn
       ELSE /\ run' = [run EXCEPT !.c.cursor = run.c.page.NextCursor]
            /\ bpc' = "page"
            /\ trace' = trace
    /\ UNCHANGED <<posts, ret, batchFrame>>

\* a post before the filter date ends the campaign
BatchCutoff ==
    /\ bpc = "post"
    /\ AtPost
    /\ BeforeCutoff
    /\ CampaignReturn
    /\ UNCHANGED <<posts, ret, batchFrame>>

\* the links a cached row contributes
CachedLinks(post) ==
    IF post.YouTubeLinks = << >> THEN NilSlice
    ELSE LET u == UnmarshalStored(post.YouTubeLinks) IN IF u.err THEN NilSlice ELSE u.slice

\* a post with cached details: its stored links are used
BatchCached ==
    /\ bpc = "post"
    /\ AtPost
    /\ ~BeforeCutoff
    /\ HasCachedDetails
    /\ run' = [run EXCEPT !.c.allLinks = AppendAll(@, CachedLinks(GetPost(posts, CurrentPost.ID).post)),
                          !.c.pi = @ + 1]
    /\ UNCHANGED <<bpc, posts, trace, ret, batchFrame>>

\* a post without cached details: FetchPostDetails, and on success
\* SavePostDetails, whose error is dropped
BatchFetchDetail(fail) ==
    /\ bpc = "post"
    /\ AtPost
    /\ ~BeforeCutoff
    /\ ~HasCachedDetails
    /\ LET id == CurrentPost.ID
           d == DetailAnswers[id][fail]
           ev == [Event("detail") EXCEPT !.id = id, !.err = d.err # ""]
       IN  IF d.err # ""
           THEN /\ trace' = Append(trace, ev)
                /\ run' = [run EXCEPT !.c.pi = @ + 1]
                /\ posts' = posts
           ELSE /\ trace' = trace \o <<ev, [Event("save") EXCEPT !.id = id]>>
                /\ posts' = SavePostDetailsRows(posts, id, d.details.Description,
                                                MarshalLinks(d.details.YouTubeLinks))
                /\ run' = [run EXCEPT !.c.allLinks = AppendAll(@, d.details.YouTubeLinks),
                                      !.c.pi = @ + 1]
    /\ bpc' = "postSleep"
    /\ UNCHANGED <<ret, batchFrame>>


(***************************************************************************)
(* The interactive browser: Model, Update and the key handlers of          *)
(* internal/ui/app.go.  A fetch the loop dispatches is a unit that runs on *)
(* its own and hands one message back to Update.                           *)
(***************************************************************************)
MaxHistory == 3

\* what the text input can hold after an edit
InputValues == {"", "c1"}

\* the keys of the handlers
Keys == {"enter", "esc", "backspace", "up", "down", "r", "R", "n", "p", "q",
         "c", "y", "x", "X", "[", "]", "a", "A"}

NilDetails == [isNil |-> TRUE, ID |-> "", Description |-> << >>, YouTubeLinks |-> NilSlice]

\* NewModel
NewModel ==
    [state |-> "Input", input |-> "", campaignID |-> "", posts |-> << >>, cursor |-> 0,
     err |-> "", postDetails |-> NilDetails, cachedDetails |-> "", linkCursor |-> 0,
     clipboardLinks |-> << >>, clipboardCursor |-> 0, statusMessage |-> "",
     currentPage |-> 1, nextCursor |-> << >>, cursorHistory |-> << >>, hasMorePages |-> FALSE,
     quit |-> FALSE]

\* the tea.Cmd of fetchPosts(cursor) and of fetchPostDetails(postID)
PostsUnit(campaignID, cursor) ==
    [kind |-> "posts", campaignID |-> campaignID, cursor |-> cursor, postID |-> "",
     done |-> FALSE, msg |-> [Err |-> ""]]

DetailsUnit(postID) ==
    [kind |-> "details", campaignID |-> "", cursor |-> << >>, postID |-> postID,
     done |-> FALSE, msg |-> [Err |-> ""]]

\* no forward step to come back from, no failed fetch on the Error screen
NoFwd == [phase |-> "", cursor |-> << >>, page |-> 0]

NoFailed == [kind |-> "", cursor |-> << >>]

\* nothing fetched yet
NoNav == [shown |-> << >>, failed |-> NoFailed, fwd |-> NoFwd]

UiIdle ==
    /\ ui = NewModel
    /\ units = << >>
    /\ handled = [kind |-> "", key |-> ""]
    /\ nav = NoNav

\* a campaign of three pages: the third lists no post
LongFeed ==
    [Feed(DayAfter, DayAfter, NextCursorLink) EXCEPT
        !.c1 = <<@[1], [@[2] EXCEPT !.Next = NextThirdLink],
                 [Data |-> << >>, Next |-> << >>]>>]

\* what the remote serves to the browser: the campaign of three pages, or a
\* campaign whose first page has a next link that carries no cursor
UiFeeds == {LongFeed, Feed(DayAfter, DayAfter, NextPlainLink)}

\* the posts table when the browser starts: empty, or as earlier sessions
\* left it
UiStores == {{}, CHOOSE s \in BatchStores : \E r \in s : r.youtube_links = ValidString(StoredLinks)}

\* the browser starts, with one of the feeds at the remote and one of the
\* stores on disk
UiStart(feeds, stores) ==
    /\ ui = NewModel
    /\ units = << >>
    /\ handled = [kind |-> "", key |-> ""]
    /\ nav = NoNav
    /\ remote \in feeds
    /\ campaigns = {}
    /\ posts \in stores
    /\ now = 0
    /\ call = Idle
    /\ last = NoCall
    /\ cfg = [Campaigns |-> << >>, afterDate |-> << >>]
    /\ bpc = "idle"
    /\ run = RunLocals
    /\ trace = << >>
    /\ ret = NoReturn

UiInit == UiStart(UiFeeds, UiStores)

uiFrame == <<now, call, last, remote, cfg, bpc, run, trace, ret, extractVars, fetchVars>>

\* Update got the key k
KeyPress(k) == /\ ~ui.quit
               /\ handled' = [kind |-> "key", key |-> k]

\* a key other than a page-forward or page-backward: it ends a
\* forward-and-back pair and, unless it is the retry, leaves the Error
\* screen's failed fetch behind; the keys pressed while a fetch is on its
\* way do neither
Key(k) == /\ KeyPress(k)
          /\ nav' = IF ui.state = "Loading" THEN nav
                    ELSE IF ui.state = "Error" /\ k = "r" THEN [nav EXCEPT !.fwd = NoFwd]
                    ELSE [nav EXCEPT !.fwd = NoFwd, !.failed = NoFailed]

\* the Model once Update has cleared the status message, as it does on
\* every key press
Cleared == [ui EXCEPT !.statusMessage = ""]

\* the cursor of the page on display: "" on page 1, else the top of the history
CurrentCursor ==
    IF ui.currentPage > 1 /\ Len(ui.cursorHistory) > 0
    THEN ui.cursorHistory[Len(ui.cursorHistory)] ELSE << >>

\* a key that edits the text input
InputType(v) ==
    /\ Key("text")
    /\ ui.state = "Input"
    /\ ui' = [Cleared EXCEPT !.input = v]
    /\ UNCHANGED <<units, campaigns, posts, uiFrame>>

\* enter in Input (variant: the screen stays Input while the fetch runs)
InputEnter_NoGate ==
    /\ Key("enter")
    /\ ui.state = "Input"
    /\ IF ui.input # ""
       THEN /\ ui' = [Cleared EXCEPT !.campaignID = ui.input, !.currentPage = 1, !.cursorHistory = << >>]
            /\ units' = Append(units, PostsUnit(ui.input, << >>))
       ELSE ui' = Cleared /\ units' = units
    /\ UNCHANGED <<campaigns, posts, uiFrame>>

\* enter in Input
InputEnter ==
    /\ Key("enter")
    /\ ui.state = "Input"
    /\ IF ui.input # ""
       THEN /\ ui' = [Cleared EXCEPT !.campaignID = ui.input, !.currentPage = 1, !.cursorHistory = << >>,
                                !.state = "Loading"]
            /\ units' = Append(units, PostsUnit(ui.input, << >>))
       ELSE ui' = Cleared /\ units' = units
    /\ UNCHANGED <<campaigns, posts, uiFrame>>

\* ctrl+c or esc in Input, q elsewhere: tea.Quit
Quit(k) ==
    /\ Key(k)
    /\ IF ui.state = "Input" THEN k = "esc" ELSE k = "q"
    /\ ui' = [Cleared EXCEPT !.quit = TRUE]
    /\ UNCHANGED <<units, campaigns, posts, uiFrame>>

\* a key while Loading: no handler
LoadingKey(k) ==
    /\ Key("any")
    /\ ui.state = "Loading"
    /\ k # "q"
    /\ ui' = Cleared
    /\ UNCHANGED <<units, campaigns, posts, uiFrame>>

\* up, k and down, j in List (variant: down stops one row too late)
ListMove_NoBound(k) ==
    /\ Key(k)
    /\ ui.state = "List"
    /\ k \in {"up", "down"}
    /\ ui' = IF k = "up" /\ ui.cursor > 0 THEN [Cleared EXCEPT !.cursor = @ - 1]
             ELSE IF k = "down" /\ ui.cursor < Len(ui.posts) THEN [Cleared EXCEPT !.cursor = @ + 1]
             ELSE Cleared
    /\ UNCHANGED <<units, campaigns, posts, uiFrame>>

\* up, k and down, j in List
ListMove(k) ==
    /\ Key(k)
    /\ ui.state = "List"
    /\ k \in {"up", "down"}
    /\ ui' = IF k = "up" /\ ui.cursor > 0 THEN [Cleared EXCEPT !.cursor = @ - 1]
             ELSE IF k = "down" /\ ui.cursor < Len(ui.posts) - 1 THEN [Cleared EXCEPT !.cursor = @ + 1]
             ELSE Cleared
    /\ UNCHANGED <<units, campaigns, posts, uiFrame>>

\* the details view built from a cached row (variant: the links left out)
DetailsFromCache_NoLinks(cached) ==
    [isNil |-> FALSE, ID |-> cached.ID, Description |-> cached.Description,
     YouTubeLinks |-> NilSlice]

\* the details view built from a cached row
DetailsFromCache(cached) ==
    [isNil |-> FALSE, ID |-> cached.ID, Description |-> cached.Description,
     YouTubeLinks |-> IF cached.YouTubeLinks # << >>
                      THEN UnmarshalStored(cached.YouTubeLinks).slice ELSE NilSlice]

\* enter in List
ListEnter ==
    /\ Key("enter")
    /\ ui.state = "List"
    /\ IF Len(ui.posts) > 0
       THEN LET post == ui.posts[ui.cursor + 1]
                g == GetPost(posts, post.ID)
            IN  IF post.DetailsCached /\ ~g.err /\ g.found /\ g.post.DetailsCached
                THEN /\ ui' = [Cleared EXCEPT !.cachedDetails = post.ID,
                                         !.postDetails = DetailsFromCache(g.post),
                                         !.linkCursor = 0, !.state = "Details"]
                     /\ units' = units
                ELSE /\ ui' = [Cleared EXCEPT !.state = "Loading"]
                     /\ units' = Append(units, DetailsUnit(post.ID))
       ELSE ui' = Cleared /\ units' = units
    /\ UNCHANGED <<campaigns, posts, uiFrame>>

\* r in List (variant: the first page is requested)
ListRefresh_FirstPage ==
    /\ Key("r")
    /\ ui.state = "List"
    /\ ui' = [Cleared EXCEPT !.state = "Loading"]
    /\ units' = Append(units, PostsUnit(ui.campaignID, << >>))
    /\ UNCHANGED <<campaigns, posts, uiFrame>>

\* r in List: the current page again
ListRefresh ==
    /\ Key("r")
    /\ ui.state = "List"
    /\ ui' = [Cleared EXCEPT !.state = "Loading"]
    /\ units' = Append(units, PostsUnit(ui.campaignID, CurrentCursor))
    /\ UNCHANGED <<campaigns, posts, uiFrame>>

\* R in List (variant: the campaign's rows are deleted first)
ListForceRefresh_ClearCache ==
    /\ Key("R")
    /\ ui.state = "List"
    /\ ui' = [Cleared EXCEPT !.currentPage = 1, !.cursorHistory = << >>, !.state = "Loading"]
    /\ units' = Append(units, PostsUnit(ui.campaignID, << >>))
    /\ posts' = DeletePostsRows(posts, ui.campaignID)
    /\ UNCHANGED <<campaigns, uiFrame>>

\* R in List: back to page 1
ListForceRefresh ==
    /\ Key("R")
    /\ ui.state = "List"
    /\ ui' = [Cleared EXCEPT !.currentPage = 1, !.cursorHistory = << >>, !.state = "Loading"]
    /\ units' = Append(units, PostsUnit(ui.campaignID, << >>))
    /\ UNCHANGED <<campaigns, posts, uiFrame>>

\* the guard of n, l and right (variant: the cursor not looked at)
CanPageForward_HasMoreOnly == ui.hasMorePages

\* the guard of n, l and right
CanPageForward == ui.hasMorePages /\ ui.nextCursor # << >>

\* n, l, right in List: the next page
ListNext ==
    /\ KeyPress("n")
    /\ ui.state = "List"
    /\ CanPageForward => Len(ui.cursorHistory) + (IF ui.currentPage = 1 THEN 2 ELSE 1) <= MaxHistory
    /\ IF CanPageForward
       THEN /\ ui' = [Cleared EXCEPT !.cursorHistory = (IF ui.currentPage = 1 THEN Append(@, << >>) ELSE @)
                                                      \o <<ui.nextCursor>>,
                                !.currentPage = @ + 1, !.state = "Loading"]
            /\ units' = Append(units, PostsUnit(ui.campaignID, ui.nextCursor))
            /\ nav' = [nav EXCEPT !.fwd = [phase |-> "forward", cursor |-> nav.shown,
                                           page |-> ui.currentPage]]
       ELSE ui' = Cleared /\ units' = units /\ nav' = [nav EXCEPT !.fwd = NoFwd]
    /\ UNCHANGED <<campaigns, posts, uiFrame>>

\* p, h, left in List (variant: the cursor read before the pop)
ListPrev_StaleCursor ==
    /\ KeyPress("p")
    /\ ui.state = "List"
    /\ IF ui.currentPage > 1 /\ Len(ui.cursorHistory) > 0
       THEN LET popped == SubSeq(ui.cursorHistory, 1, Len(ui.cursorHistory) - 1)
                cursor == ui.cursorHistory[Len(ui.cursorHistory)]
            IN  /\ ui' = [Cleared EXCEPT !.currentPage = @ - 1, !.cursorHistory = popped,
                                    !.state = "Loading"]
                /\ units' = Append(units, PostsUnit(ui.campaignID, cursor))
                /\ nav' = IF nav.fwd.phase = "forward" THEN [nav EXCEPT !.fwd.phase = "back"]
                          ELSE [nav EXCEPT !.fwd = NoFwd]
       ELSE ui' = Cleared /\ units' = units /\ nav' = [nav EXCEPT !.fwd = NoFwd]
    /\ UNCHANGED <<campaigns, posts, uiFrame>>

\* p, h, left in List: the previous page
ListPrev ==
    /\ KeyPress("p")
    /\ ui.state = "List"
    /\ IF ui.currentPage > 1 /\ Len(ui.cursorHistory) > 0
       THEN LET popped == SubSeq(ui.cursorHistory, 1, Len(ui.cursorHistory) - 1)
                cursor == IF Len(popped) > 0 THEN popped[Len(popped)] ELSE << >>
            IN  /\ ui' = [Cleared EXCEPT !.currentPage = @ - 1, !.cursorHistory = popped,
                                    !.state = "Loading"]
                /\ units' = Append(units, PostsUnit(ui.campaignID, cursor))
                /\ nav' = IF nav.fwd.phase = "forward" THEN [nav EXCEPT !.fwd.phase = "back"]
                          ELSE [nav EXCEPT !.fwd = NoFwd]
       ELSE ui' = Cleared /\ units' = units /\ nav' = [nav EXCEPT !.fwd = NoFwd]
    /\ UNCHANGED <<campaigns, posts, uiFrame>>

\* esc in List, esc in Error (variant: the clipboard is emptied)
BackToInput_DropClipboard ==
    /\ Key("esc")
    /\ ui.state \in {"List", "Error"}
    /\ ui' = [Cleared EXCEPT !.state = "Input", !.input = "",
                             !.clipboardLinks = << >>, !.clipboardCursor = 0]
    /\ UNCHANGED <<units, campaigns, posts, uiFrame>>

\* esc in List, esc in Error: back to the campaign input
BackToInput ==
    /\ Key("esc")
    /\ ui.state \in {"List", "Error"}
    /\ ui' = [Cleared EXCEPT !.state = "Input", !.input = ""]
    /\ UNCHANGED <<units, campaigns, posts, uiFrame>>

\* esc, backspace in Details (variant: back to the campaign input)
DetailsBack_ToInput(k) ==
    /\ Key(k)
    /\ k \in {"esc", "backspace"}
    /\ ui.state = "Details"
    /\ ui' = [Cleared EXCEPT !.state = "Input", !.postDetails = NilDetails, !.cachedDetails = "",
                        !.linkCursor = 0]
    /\ UNCHANGED <<units, campaigns, posts, uiFrame>>

\* esc, backspace in Details
DetailsBack(k) ==
    /\ Key(k)
    /\ k \in {"esc", "backspace"}
    /\ ui.state = "Details"
    /\ ui' = [Cleared EXCEPT !.state = "List", !.postDetails = NilDetails, !.cachedDetails = "",
                        !.linkCursor = 0]
    /\ UNCHANGED <<units, campaigns, posts, uiFrame>>

\* R in Details (variant: the list entry keeps its flag)
DetailsForceRefresh_KeepFlag ==
    /\ Key("R")
    /\ ui.state = "Details"
    /\ IF Len(ui.posts) > 0
       THEN LET post == ui.posts[ui.cursor + 1]
            IN  /\ posts' = ClearPostDetailsRows(posts, post.ID)
                /\ ui' = [Cleared EXCEPT !.state = "Loading"]
                /\ units' = Append(units, DetailsUnit(post.ID))
       ELSE ui' = Cleared /\ units' = units /\ posts' = posts
    /\ UNCHANGED <<campaigns, uiFrame>>

\* R in Details: the post's detail again, from the remote
DetailsForceRefresh ==
    /\ Key("R")
    /\ ui.state = "Details"
    /\ IF Len(ui.posts) > 0
       THEN LET post == ui.posts[ui.cursor + 1]
            IN  /\ posts' = ClearPostDetailsRows(posts, post.ID)
                /\ ui' = [Cleared EXCEPT !.posts[ui.cursor + 1].DetailsCached = FALSE, !.state = "Loading"]
                /\ units' = Append(units, DetailsUnit(post.ID))
       ELSE ui' = Cleared /\ units' = units /\ posts' = posts
    /\ UNCHANGED <<campaigns, uiFrame>>

\* up, k and down, j in Details: the link cursor
DetailsMove(k) ==
    /\ Key(k)
    /\ ui.state = "Details"
    /\ k \in {"up", "down"}
    /\ LET n == IF ui.postDetails.isNil THEN 0 ELSE Len(ui.postDetails.YouTubeLinks.elems)
       IN  ui' = IF k = "up" /\ n > 0 /\ ui.linkCursor > 0 THEN [Cleared EXCEPT !.linkCursor = @ - 1]
                 ELSE IF k = "down" /\ n > 0 /\ ui.linkCursor < n - 1 THEN [Cleared EXCEPT !.linkCursor = @ + 1]
                 ELSE Cleared
    /\ UNCHANGED <<units, campaigns, posts, uiFrame>>

\* r in Error (variant: the first page is requested)
ErrorRetry_FirstPage ==
    /\ Key("r")
    /\ ui.state = "Error"
    /\ ui' = [Cleared EXCEPT !.state = "Loading"]
    /\ units' = Append(units, PostsUnit(ui.campaignID, << >>))
    /\ UNCHANGED <<campaigns, posts, uiFrame>>

\* r in Error
ErrorRetry ==
    /\ Key("r")
    /\ ui.state = "Error"
    /\ ui' = [Cleared EXCEPT !.state = "Loading"]
    /\ units' = Append(units, PostsUnit(ui.campaignID, CurrentCursor))
    /\ UNCHANGED <<campaigns, posts, uiFrame>>

\* the global clipboard keys act in List and in Details
ClipboardScreen == ui.state \in {"List", "Details"}

\* c, y: the clipboard's links go to the system clipboard, joined by newlines;
\* the write to the system clipboard can fail
Copy(k, ok) ==
    /\ Key(k)
    /\ k \in {"c", "y"}
    /\ ClipboardScreen
    /\ ui' = [Cleared EXCEPT !.statusMessage =
                 IF Len(ui.clipboardLinks) = 0 THEN "Clipboard is empty"
                 ELSE IF ok THEN "Copied " \o ToString(Len(ui.clipboardLinks)) \o " links to clipboard!"
                 ELSE "Failed to copy to clipboard"]
    /\ UNCHANGED <<units, campaigns, posts, uiFrame>>

\* append(links[:cursor], links[cursor+1:]...)
RemoveAt(s, c) == SubSeq(s, 1, c) \o SubSeq(s, c + 2, Len(s))

\* x (variant: the cursor stays where it was)
ClipboardRemove_KeepCursor ==
    /\ Key("x")
    /\ ClipboardScreen
    /\ ui' = IF Len(ui.clipboardLinks) > 0
             THEN [Cleared EXCEPT
                      !.clipboardLinks = RemoveAt(ui.clipboardLinks, ui.clipboardCursor),
                      !.statusMessage = "Removed link from clipboard"]
             ELSE Cleared
    /\ UNCHANGED <<units, campaigns, posts, uiFrame>>

\* x: the link under the clipboard cursor is removed
ClipboardRemove ==
    /\ Key("x")
    /\ ClipboardScreen
    /\ ui' = IF Len(ui.clipboardLinks) > 0
             THEN LET rest == RemoveAt(ui.clipboardLinks, ui.clipboardCursor)
                  IN  [Cleared EXCEPT
                          !.clipboardLinks = rest,
                          !.clipboardCursor =
                              IF ui.clipboardCursor >= Len(rest) /\ ui.clipboardCursor > 0
                              THEN @ - 1 ELSE @,
                          !.statusMessage = "Removed link from clipboard"]
             ELSE Cleared
    /\ UNCHANGED <<units, campaigns, posts, uiFrame>>

\* X: the clipboard is emptied
ClipboardClear ==
    /\ Key("X")
    /\ ClipboardScreen
    /\ ui' = [Cleared EXCEPT !.clipboardLinks = << >>, !.clipboardCursor = 0,
                             !.statusMessage = "Cleared clipboard"]
    /\ UNCHANGED <<units, campaigns, posts, uiFrame>>

\* [ and ]: the clipboard cursor
ClipboardMove(k) ==
    /\ Key(k)
    /\ k \in {"[", "]"}
    /\ ClipboardScreen
    /\ ui' = IF k = "[" /\ ui.clipboardCursor > 0 THEN [Cleared EXCEPT !.clipboardCursor = @ - 1]
             ELSE IF k = "]" /\ ui.clipboardCursor < Len(ui.clipboardLinks) - 1
             THEN [Cleared EXCEPT !.clipboardCursor = @ + 1]
             ELSE Cleared
    /\ UNCHANGED <<units, campaigns, posts, uiFrame>>

\* the link is one of the clipboard's
InClipboard(clip, link) == \E i \in 1..Len(clip) : clip[i] = link

RECURSIVE AddAllNew(_, _)
\* the loop of A: each link the clipboard does not hold yet is appended
AddAllNew(clip, ls) ==
    IF ls = << >> THEN clip
    ELSE AddAllNew(IF InClipboard(clip, Head(ls)) THEN clip ELSE Append(clip, Head(ls)), Tail(ls))

\* the links of the details on display
ShownLinks == IF ui.postDetails.isNil THEN << >> ELSE ui.postDetails.YouTubeLinks.elems

\* a, enter in Details: the link under the link cursor joins the clipboard
DetailsAdd(k) ==
    /\ Key(k)
    /\ k \in {"a", "enter"}
    /\ ui.state = "Details"
    /\ ui' = IF Len(ShownLinks) > 0
             THEN LET link == ShownLinks[ui.linkCursor + 1]
                  IN  IF InClipboard(ui.clipboardLinks, link)
                      THEN [Cleared EXCEPT !.statusMessage = "Link already in clipboard"]
                      ELSE [Cleared EXCEPT !.clipboardLinks = Append(@, link),
                                           !.statusMessage = "Added link to clipboard"]
             ELSE Cleared
    /\ UNCHANGED <<units, campaigns, posts, uiFrame>>

\* A in Details: all links of the details join the clipboard
DetailsAddAll ==
    /\ Key("A")
    /\ ui.state = "Details"
    /\ ui' = IF Len(ShownLinks) > 0
             THEN LET all == AddAllNew(ui.clipboardLinks, ShownLinks)
                      added == Len(all) - Len(ui.clipboardLinks)
                  IN  [Cleared EXCEPT !.clipboardLinks = all,
                                      !.statusMessage =
                                          IF added > 0
                                          THEN "Added " \o ToString(added) \o " links to clipboard"
                                          ELSE "All links already in clipboard"]
             ELSE Cleared
    /\ UNCHANGED <<units, campaigns, posts, uiFrame>>

\* models.FromPostData for a listed post
ListedPost(data) == [ID |-> data.ID, PublishedAt |-> data.PublishedAt, DetailsCached |-> FALSE]

RECURSIVE SavePosts(_, _, _, _)
\* the loop of fetchPosts over page.Posts: SavePost of each
SavePosts(rows, campaignID, ps, t) ==
    IF ps = << >> THEN rows
    ELSE SavePosts(SavePostRows(rows, [ZeroCachedPost EXCEPT !.ID = Head(ps).ID,
                                          !.CampaignID = campaignID,
                                          !.PublishedAt = Head(ps).PublishedAt], t),
                   campaignID, Tail(ps), t)

\* the unit of fetchPosts runs (variant: the campaign is saved before the
\* fetch)
RunFetchPosts_SaveFirst(i, fail) ==
    /\ i \in 1..Len(units)
    /\ units[i].kind = "posts" /\ ~units[i].done
    /\ LET u == units[i]
           f == FetchPosts(u.cursor, RemotePage(remote, u.campaignID, RequestCursor(u.cursor), fail))
       IN  IF f.err # ""
           THEN /\ units' = [units EXCEPT ![i].done = TRUE, ![i].msg = [Err |-> f.err]]
                /\ campaigns' = SaveCampaignRows(campaigns, u.campaignID, "", now)
                /\ UNCHANGED posts
           ELSE /\ campaigns' = SaveCampaignRows(campaigns, u.campaignID, "", now)
                /\ posts' = SavePosts(posts, u.campaignID, f.page.Posts, now)
                /\ units' = [units EXCEPT ![i].done = TRUE,
                                ![i].msg = [Err |-> "",
                                            Posts |-> [k \in 1..Len(f.page.Posts) |-> ListedPost(f.page.Posts[k])],
                                            NextCursor |-> f.page.NextCursor,
                                            HasMore |-> f.page.HasMore, Total |-> f.page.Total]]
    /\ handled' = [kind |-> "unit", key |-> ""]
    /\ UNCHANGED <<ui, nav, uiFrame>>

\* the unit of fetchPosts runs: FetchPosts, then SaveCampaign and SavePost
\* of each post, and the message
RunFetchPosts(i, fail) ==
    /\ i \in 1..Len(units)
    /\ units[i].kind = "posts" /\ ~units[i].done
    /\ LET u == units[i]
           f == FetchPosts(u.cursor, RemotePage(remote, u.campaignID, RequestCursor(u.cursor), fail))
       IN  IF f.err # ""
           THEN /\ units' = [units EXCEPT ![i].done = TRUE, ![i].msg = [Err |-> f.err]]
                /\ UNCHANGED <<campaigns, posts>>
           ELSE /\ campaigns' = SaveCampaignRows(campaigns, u.campaignID, "", now)
                /\ posts' = SavePosts(posts, u.campaignID, f.page.Posts, now)
                /\ units' = [units EXCEPT ![i].done = TRUE,
                                ![i].msg = [Err |-> "",
                                            Posts |-> [k \in 1..Len(f.page.Posts) |-> ListedPost(f.page.Posts[k])],
                                            NextCursor |-> f.page.NextCursor,
                                            HasMore |-> f.page.HasMore, Total |-> f.page.Total]]
    /\ handled' = [kind |-> "unit", key |-> ""]
    /\ UNCHANGED <<ui, nav, uiFrame>>

\* the unit of fetchPostDetails runs
RunFetchDetails(i, fail) ==
    /\ i \in 1..Len(units)
    /\ units[i].kind = "details" /\ ~units[i].done
    /\ LET d == DetailAnswers[units[i].postID][fail]
       IN  units' = [units EXCEPT ![i].done = TRUE,
                        ![i].msg = [Err |-> d.err, Details |-> d.details]]
    /\ handled' = [kind |-> "unit", key |-> ""]
    /\ UNCHANGED <<ui, nav, campaigns, posts, uiFrame>>

Remove(s, i) == SubSeq(s, 1, i - 1) \o SubSeq(s, i + 1, Len(s))

\* Update(PostsFetchedMsg) (variant: a failed result empties the list)
PostsFetched_DropList(i) ==
    /\ i \in 1..Len(units)
    /\ units[i].kind = "posts" /\ units[i].done
    /\ ~ui.quit
    /\ LET msg == units[i].msg
       IN  ui' = IF msg.Err # "" THEN [ui EXCEPT !.state = "Error", !.err = msg.Err,
                                               !.posts = << >>, !.hasMorePages = FALSE]
                 ELSE [ui EXCEPT
                          !.posts = [k \in 1..Len(msg.Posts) |->
                                        [msg.Posts[k] EXCEPT
                                            !.DetailsCached = IsPostDetailsCached(posts, msg.Posts[k].ID).cached]],
                          !.nextCursor = msg.NextCursor, !.hasMorePages = msg.HasMore,
                          !.state = "List", !.cursor = 0]
    /\ nav' = IF units[i].msg.Err # ""
              THEN [nav EXCEPT !.failed = [kind |-> "posts", cursor |-> units[i].cursor],
                               !.fwd = NoFwd]
              ELSE [nav EXCEPT !.shown = units[i].cursor, !.failed = NoFailed]
    /\ units' = Remove(units, i)
    /\ handled' = [kind |-> "PostsFetchedMsg", key |-> ""]
    /\ UNCHANGED <<campaigns, posts, uiFrame>>

\* Update(PostsFetchedMsg)
PostsFetched(i) ==
    /\ i \in 1..Len(units)
    /\ units[i].kind = "posts" /\ units[i].done
    /\ ~ui.quit
    /\ LET msg == units[i].msg
       IN  ui' = IF msg.Err # "" THEN [ui EXCEPT !.state = "Error", !.err = msg.Err]
                 ELSE [ui EXCEPT
                          !.posts = [k \in 1..Len(msg.Posts) |->
                                        [msg.Posts[k] EXCEPT
                                            !.DetailsCached = IsPostDetailsCached(posts, msg.Posts[k].ID).cached]],
                          !.nextCursor = msg.NextCursor, !.hasMorePages = msg.HasMore,
                          !.state = "List", !.cursor = 0]
    /\ nav' = IF units[i].msg.Err # ""
              THEN [nav EXCEPT !.failed = [kind |-> "posts", cursor |-> units[i].cursor],
                               !.fwd = NoFwd]
              ELSE [nav EXCEPT !.shown = units[i].cursor, !.failed = NoFailed]
    /\ units' = Remove(units, i)
    /\ handled' = [kind |-> "PostsFetchedMsg", key |-> ""]
    /\ UNCHANGED <<campaigns, posts, uiFrame>>

\* the first listed post with the id gets its flag set (variant: no flag is set)
MarkCached_None(ps, id) == ps

\* the first listed post with the id gets its flag set
MarkCached(ps, id) ==
    IF \E k \in 1..Len(ps) : ps[k].ID = id
    THEN LET first == CHOOSE k \in 1..Len(ps) : ps[k].ID = id /\ \A j \in 1..(k - 1) : ps[j].ID # id
         IN  [ps EXCEPT ![first].DetailsCached = TRUE]
    ELSE ps

\* Update(PostDetailsFetchedMsg) (variant: the screen stays Loading on success)
PostDetailsFetched_StayLoading(i) ==
    /\ i \in 1..Len(units)
    /\ units[i].kind = "details" /\ units[i].done
    /\ ~ui.quit
    /\ LET msg == units[i].msg
       IN  IF msg.Err # ""
           THEN /\ ui' = [ui EXCEPT !.state = "Error", !.err = msg.Err]
                /\ posts' = posts
           ELSE /\ posts' = SavePostDetailsRows(posts, msg.Details.ID, msg.Details.Description,
                                                MarshalLinks(msg.Details.YouTubeLinks))
                /\ ui' = [ui EXCEPT !.postDetails = [isNil |-> FALSE, ID |-> msg.Details.ID,
                                                    Description |-> msg.Details.Description,
                                                    YouTubeLinks |-> msg.Details.YouTubeLinks],
                                    !.linkCursor = 0,
                                    !.posts = MarkCached(@, msg.Details.ID)]
    /\ nav' = IF units[i].msg.Err # ""
              THEN [nav EXCEPT !.failed = [kind |-> "details", cursor |-> << >>], !.fwd = NoFwd]
              ELSE [nav EXCEPT !.fwd = NoFwd, !.failed = NoFailed]
    /\ units' = Remove(units, i)
    /\ handled' = [kind |-> "PostDetailsFetchedMsg", key |-> ""]
    /\ UNCHANGED <<campaigns, uiFrame>>

\* Update(PostDetailsFetchedMsg)
PostDetailsFetched(i) ==
    /\ i \in 1..Len(units)
    /\ units[i].kind = "details" /\ units[i].done
    /\ ~ui.quit
    /\ LET msg == units[i].msg
       IN  IF msg.Err # ""
           THEN /\ ui' = [ui EXCEPT !.state = "Error", !.err = msg.Err]
                /\ posts' = posts
           ELSE /\ posts' = SavePostDetailsRows(posts, msg.Details.ID, msg.Details.Description,
                                                MarshalLinks(msg.Details.YouTubeLinks))
                /\ ui' = [ui EXCEPT !.postDetails = [isNil |-> FALSE, ID |-> msg.Details.ID,
                                                    Description |-> msg.Details.Description,
                                                    YouTubeLinks |-> msg.Details.YouTubeLinks],
                                    !.linkCursor = 0,
                                    !.posts = MarkCached(@, msg.Details.ID),
                                    !.state = "Details"]
    /\ nav' = IF units[i].msg.Err # ""
              THEN [nav EXCEPT !.failed = [kind |-> "details", cursor |-> << >>], !.fwd = NoFwd]
              ELSE [nav EXCEPT !.fwd = NoFwd, !.failed = NoFailed]
    /\ units' = Remove(units, i)
    /\ handled' = [kind |-> "PostDetailsFetchedMsg", key |-> ""]
    /\ UNCHANGED <<campaigns, uiFrame>>

\* the cache store on its own: any sequence of calls
Init == StoreInit /\ ExtractIdle /\ FetchIdle /\ BatchIdle /\ UiIdle

Next ==
    \/ Tick
    \/ \E id \in CampaignIds, name \in Names : SaveCampaign(id, name, FALSE)
    \/ \E id \in PostIds, cid \in CampaignIds, sum \in SummaryInputs :
          SavePost(CachedPostOf(id, cid, sum), FALSE)
    \/ \E id \in PostIds, d \in DetailInputs :
          SavePostDetails(id, d.description, LinkJSON[d.links], FALSE)
    \/ \E id \in PostIds : ClearPostDetails(id, FALSE)
    \/ \E cid \in CampaignIds, fail \in BOOLEAN : ClearCampaignCacheBegin(cid, fail)
    \/ \E fail \in BOOLEAN : ClearCampaignCacheEnd(fail)

Spec == Init /\ [][Next]_vars

\* ExtractYouTubeLinks applied to every input text
InitExtract == ExtractInit /\ StoreInit /\ FetchIdle /\ BatchIdle /\ UiIdle

NextExtract == Extract

SpecExtract == InitExtract /\ [][NextExtract]_vars

\* FetchPosts applied to every answer of the remote
InitFetch == FetchInit /\ StoreInit /\ ExtractIdle /\ BatchIdle /\ UiIdle

NextFetch == Fetch

SpecFetch == InitFetch /\ [][NextFetch]_vars

\* one run of the batch workflow, for every input, remote and store
InitBatch == BatchInit /\ ExtractIdle /\ FetchIdle /\ UiIdle

NextBatch ==
    \/ BatchStart
    \/ BatchCampaign
    \/ \E fail \in BOOLEAN : BatchFetchPage(fail)
    \/ BatchSleep
    \/ BatchPageEnd
    \/ BatchCutoff
    \/ BatchCached
    \/ \E fail \in BOOLEAN : BatchFetchDetail(fail)

SpecBatch == InitBatch /\ [][NextBatch]_vars

\* the browser: any sequence of keys, with the dispatched fetches running
\* and reporting in between
InitUi == UiInit /\ ExtractIdle /\ FetchIdle

NextUi ==
    \/ \E v \in InputValues : InputType(v)
    \/ InputEnter
    \/ \E k \in {"esc", "q"} : Quit(k)
    \/ \E k \in {"enter", "x"} : LoadingKey(k)
    \/ \E k \in {"up", "down"} : ListMove(k)
    \/ ListEnter
    \/ ListRefresh
    \/ ListForceRefresh
    \/ ListNext
    \/ ListPrev
    \/ BackToInput
    \/ \E k \in {"esc", "backspace"} : DetailsBack(k)
    \/ DetailsForceRefresh
    \/ \E k \in {"up", "down"} : DetailsMove(k)
    \/ ErrorRetry
    \/ \E i \in 1..Len(units), fail \in BOOLEAN : RunFetchPosts(i, fail)
    \/ \E i \in 1..Len(units), fail \in BOOLEAN : RunFetchDetails(i, fail)
    \/ \E i \in 1..Len(units) : PostsFetched(i)
    \/ \E i \in 1..Len(units) : PostDetailsFetched(i)

SpecUi == InitUi /\ [][NextUi]_vars

\* a campaign of two pages: a post with three links, then a page without
\* posts
ShortFeed ==
    [Feed(DayAfter, DayAfter, NextCursorLink) EXCEPT
        !.c1 = <<[Data |-> <<[ID |-> "p5", PublishedAt |-> DayAfter]>>, Next |-> NextCursorLink],
                 [Data |-> << >>, Next |-> << >>]>>]

\* the browser with its clipboard keys, on the campaign of two pages and a
\* store that starts empty
InitClip ==
    /\ UiStart({ShortFeed}, {{}})
    /\ ExtractIdle /\ FetchIdle

NextClip ==
    \/ \E v \in InputValues : InputType(v)
    \/ InputEnter
    \/ \E k \in {"esc", "q"} : Quit(k)
    \/ \E k \in {"enter", "x"} : LoadingKey(k)
    \/ \E k \in {"up", "down"} : ListMove(k)
    \/ ListEnter
    \/ ListRefresh
    \/ ListForceRefresh
    \/ ListNext
    \/ ListPrev
    \/ BackToInput
    \/ \E k \in {"esc", "backspace"} : DetailsBack(k)
    \/ DetailsForceRefresh
    \/ \E k \in {"up", "down"} : DetailsMove(k)
    \/ ErrorRetry
    \/ \E k \in {"c", "y"}, ok \in BOOLEAN : Copy(k, ok)
    \/ ClipboardRemove
    \/ ClipboardClear
    \/ \E k \in {"[", "]"} : ClipboardMove(k)
    \/ \E k \in {"a", "enter"} : DetailsAdd(k)
    \/ DetailsAddAll
    \/ \E i \in 1..Len(units), fail \in BOOLEAN : RunFetchPosts(i, fail)
    \/ \E i \in 1..Len(units), fail \in BOOLEAN : RunFetchDetails(i, fail)
    \/ \E i \in 1..Len(units) : PostsFetched(i)
    \/ \E i \in 1..Len(units) : PostDetailsFetched(i)

SpecClip == InitClip /\ [][NextClip]_vars

(***************************************************************************)
(* Properties of the cache store.                                          *)
(***************************************************************************)
PostsOf(rows, campaignID) == {r \in rows : r.campaign_id = campaignID}

\* the summary fields of a scanned post
SummaryOf(p) ==
    [CampaignID |-> p.CampaignID, Type |-> p.Type, PostType |-> p.PostType, Title |-> p.Title,
     PatreonURL |-> p.PatreonURL, CurrentUserCanView |-> p.CurrentUserCanView,
     PublishedAt |-> p.PublishedAt]

\* the detail columns of a row
DetailOf(r) == <<r.description, r.youtube_links, r.details_cached>>

\* C1: in every store state, a post with details_cached = TRUE has a non-NULL
\* description and a non-NULL youtube_links, and a post with a NULL
\* description or NULL youtube_links has details_cached = FALSE.
C1_CachedImpliesDetail ==
    \A r \in posts :
        /\ r.details_cached => (r.description.valid /\ r.youtube_links.valid)
        /\ (~r.description.valid \/ ~r.youtube_links.valid) => ~r.details_cached

\* a detail was saved for one post and cleared for another
C1_Witness ==
    /\ last.op = "ClearPostDetails"
    /\ \E r \in posts : r.id = last.id /\ ~r.description.valid
    /\ \E r \in posts : r.details_cached /\ r.youtube_links.str # << >>

\* C2: SavePost on an id that has a row leaves description, youtube_links
\* and details_cached of that row as they were; on an id without a row it
\* creates one row with empty description and links and details_cached FALSE.
C2_SavePostKeepsDetail ==
    [][last'.op = "SavePost" =>
        LET id == last'.id IN
        IF RowsById(posts, id) # {}
        THEN /\ {DetailOf(r) : r \in RowsById(posts', id)} = {DetailOf(r) : r \in RowsById(posts, id)}
             /\ GetPost(posts', id).post.Description = GetPost(posts, id).post.Description
             /\ GetPost(posts', id).post.YouTubeLinks = GetPost(posts, id).post.YouTubeLinks
             /\ GetPost(posts', id).post.DetailsCached = GetPost(posts, id).post.DetailsCached
        ELSE /\ Cardinality(RowsById(posts', id)) = 1
             /\ GetPost(posts', id).found
             /\ GetPost(posts', id).post.Description = ""
             /\ GetPost(posts', id).post.YouTubeLinks = << >>
             /\ ~GetPost(posts', id).post.DetailsCached
             /\ ~IsPostDetailsCached(posts', id).cached]_vars

\* SavePost has run on a post whose detail is cached
C2_Witness ==
    /\ last.op = "SavePost"
    /\ \E r \in posts : r.id = last.id /\ r.details_cached /\ r.description.str = "d1" /\ r.cached_at = now
                           /\ now > 0

\* C3: after SavePost(p), GetPost(p.ID) answers a post whose summary fields
\* (campaign, type, post type, title, url, visibility, publish time) are p's,
\* also when a row with that id existed before.
C3_SavePostStoresSummary ==
    [][\A id \in PostIds, cid \in CampaignIds, sum \in SummaryInputs :
          (last'.op = "SavePost" /\ last'.id = id /\ SavePost(CachedPostOf(id, cid, sum), FALSE)) =>
              /\ GetPost(posts', id).found
              /\ SummaryOf(GetPost(posts', id).post) = SummaryOf(CachedPostOf(id, cid, sum))]_vars

\* no two rows of a table share an id
UniqueIds ==
    /\ \A r1, r2 \in campaigns : r1.id = r2.id => r1 = r2
    /\ \A r1, r2 \in posts : r1.id = r2.id => r1 = r2

\* C4: an upsert leaves one row for its id and the row holds the call's
\* values (for a post: every summary field); the same upsert again leaves
\* the table as it is, up to the refreshed timestamp; no table ever holds
\* two rows of one id.
C4_UpsertIdempotent ==
    /\ []UniqueIds
    /\ [](\A id \in CampaignIds, name \in Names :
            SaveCampaignRows(SaveCampaignRows(campaigns, id, name, now), id, name, now)
                = SaveCampaignRows(campaigns, id, name, now))
    /\ [](\A id \in PostIds, cid \in CampaignIds, sum \in SummaryInputs :
            LET p == CachedPostOf(id, cid, sum) IN
            SavePostRows(SavePostRows(posts, p, now), p, now) = SavePostRows(posts, p, now))
    /\ [][\A id \in CampaignIds, name \in Names :
            SaveCampaign(id, name, FALSE) =>
                RowsById(campaigns', id) = {[id |-> id, name |-> name, cached_at |-> now]}]_vars
    /\ [][\A id \in PostIds, cid \in CampaignIds, sum \in SummaryInputs :
            SavePost(CachedPostOf(id, cid, sum), FALSE) =>
                /\ Cardinality(RowsById(posts', id)) = 1
                /\ \A r \in RowsById(posts', id) :
                      /\ SummaryOf(ScanPost(r)) = SummaryOf(CachedPostOf(id, cid, sum))
                      /\ r.cached_at = now]_vars

\* C5: SavePostDetails on an existing post, then GetPost: details_cached is
\* TRUE, the description is the one saved, the stored links decode to the
\* saved list in the same order, and the summary fields are as before.
C5_DetailRoundTrip ==
    [][\A id \in PostIds, d \in DetailInputs :
          (/\ last'.op = "SavePostDetails" /\ last'.id = id /\ RowsById(posts, id) # {}
           /\ SavePostDetails(id, d.description, LinkJSON[d.links], FALSE)) =>
              LET g == GetPost(posts', id).post IN
              /\ GetPost(posts', id).found
              /\ g.DetailsCached
              /\ IsPostDetailsCached(posts', id).cached
              /\ g.Description = d.description
              /\ g.YouTubeLinks = LinkJSON[d.links]
              /\ LET u == UnmarshalLinks(g.YouTubeLinks) IN ~u.err /\ u.slice.elems = d.links.elems
              /\ SummaryOf(g) = SummaryOf(GetPost(posts, id).post)]_vars

\* a two-element list with characters the encoder escapes was saved
C5_Witness ==
    /\ last.op = "SavePostDetails"
    /\ GetPost(posts, last.id).found
    /\ UnmarshalLinks(GetPost(posts, last.id).post.YouTubeLinks).slice.elems = <<LinkA, LinkQ>>

\* C6: for an id without a row GetPost answers absent without error,
\* IsPostDetailsCached answers false without error, and SavePostDetails
\* returns no error, changes no row and creates none.
C6_AbsentIdIsNoError ==
    /\ [](\A id \in PostIds : RowsById(posts, id) = {} =>
            /\ ~GetPost(posts, id).found /\ ~GetPost(posts, id).err
            /\ ~IsPostDetailsCached(posts, id).cached /\ ~IsPostDetailsCached(posts, id).err)
    /\ [][(last'.op = "SavePostDetails" /\ RowsById(posts, last'.id) = {}) =>
            /\ ~last'.err
            /\ posts' = posts
            /\ ~GetPost(posts', last'.id).found
            /\ ~IsPostDetailsCached(posts', last'.id).cached]_vars

\* SavePostDetails has run on an id without a row, beside a stored post
C6_Witness ==
    /\ last.op = "SavePostDetails"
    /\ ~last.err
    /\ RowsById(posts, last.id) = {}
    /\ posts # {}

\* C7: ClearPostDetails on a stored post makes IsPostDetailsCached false and
\* GetPost answer empty description and links; the summary fields of the
\* row, every other post row and the campaigns are unchanged.
C7_ClearDetailFrame ==
    [][(last'.op = "ClearPostDetails" /\ RowsById(posts, last'.id) # {}) =>
        LET id == last'.id IN
        /\ ~IsPostDetailsCached(posts', id).cached
        /\ GetPost(posts', id).found
        /\ GetPost(posts', id).post.Description = ""
        /\ GetPost(posts', id).post.YouTubeLinks = << >>
        /\ SummaryOf(GetPost(posts', id).post) = SummaryOf(GetPost(posts, id).post)
        /\ GetPost(posts', id).post.CachedAt = GetPost(posts, id).post.CachedAt
        /\ {r \in posts' : r.id # id} = {r \in posts : r.id # id}
        /\ campaigns' = campaigns]_vars

\* a cached detail was cleared while another post keeps its cached detail
C7_Witness ==
    /\ last.op = "ClearPostDetails"
    /\ \E r \in posts : r.id = last.id /\ ~r.details_cached /\ r.cached_at < now
    /\ \E r \in posts : r.id # last.id /\ r.details_cached

\* C8: ClearCampaignCache(c) deletes the posts of c, then the campaign row:
\* after success neither remains; rows of other campaigns are unchanged;
\* between its statements no post of c is left, and the campaign row goes
\* only when no post of c exists; a failed post deletion changes nothing.
C8_ClearCampaignChildrenFirst ==
    /\ []((last.op = "ClearCampaignCache" /\ ~last.err) =>
            (PostsOf(posts, last.id) = {} /\ RowsById(campaigns, last.id) = {}))
    /\ [](call.pc = "second" => PostsOf(posts, call.cid) = {})
    /\ [][last'.op \in {"ClearCampaignCache:1", "ClearCampaignCache"} =>
            /\ posts \ PostsOf(posts, last'.id) = posts' \ PostsOf(posts', last'.id)
            /\ campaigns \ RowsById(campaigns, last'.id) = campaigns' \ RowsById(campaigns', last'.id)
            /\ posts' \subseteq posts
            /\ campaigns' \subseteq campaigns]_vars
    /\ [][\A c \in CampaignIds :
            (RowsById(campaigns, c) # {} /\ RowsById(campaigns', c) = {}) =>
                (PostsOf(posts, c) = {} /\ PostsOf(posts', c) = {})]_vars
    /\ [][(last'.op = "ClearCampaignCache" /\ last'.err /\ last'.step = 1) =>
            (campaigns' = campaigns /\ posts' = posts)]_vars

\* a campaign was cleared while posts and the row of another campaign stay
C8_Witness ==
    /\ last.op = "ClearCampaignCache"
    /\ ~last.err
    /\ last.step = 2
    /\ \E r \in posts : r.campaign_id # last.id /\ r.details_cached
    /\ \E r \in campaigns : r.id # last.id

(***************************************************************************)
(* Properties of the link extraction.                                      *)
(***************************************************************************)
\* the matches of the k-th pattern in the content
MatchesOf(k) == FindAllStringSubmatch(youtubePatterns[k], content)

\* the matches of all patterns, by pattern index
AllMatches == [k \in 1..Len(youtubePatterns) |-> MatchesOf(k)]

\* the first pattern, in the order of the slice, whose matches ms[k] hold the id
FirstShape(ms, id) ==
    CHOOSE k \in DOMAIN ms :
        /\ \E i \in 1..Len(ms[k]) : ms[k][i].id = id
        /\ \A k2 \in 1..(k - 1) : \A i \in 1..Len(ms[k2]) : ms[k2][i].id # id

\* the position of the first match of the id by its first pattern
FirstPos(ms, id) ==
    LET m == ms[FirstShape(ms, id)]
        i == CHOOSE i \in 1..Len(m) : m[i].id = id /\ \A j \in 1..(i - 1) : m[j].id # id
    IN  m[i].pos

\* C9: every element ExtractYouTubeLinks returns is
\* https://www.youtube.com/watch?v= followed by exactly 11 characters of
\* [A-Za-z0-9_-]; no id occurs twice; every matched id is returned; and the
\* elements are ordered by the first shape that matches them in the priority
\* watch?v=, /embed/, youtu.be/, /v/, /shorts/, then by position in the text.
C9_ExtractCanonicalOrdered ==
    xpc = "done" =>
        LET out == links.elems
            ms == AllMatches
            IdOf(e) == SubSeq(e, Len(WatchPrefix) + 1, Len(e))
        IN  /\ [k \in 1..5 |-> youtubePatterns[k].lit] =
                  << <<"y", "o", "u", "t", "u", "b", "e", ".", "c", "o", "m", "/", "w", "a", "t", "c", "h", "?", "v", "=">>,
                     <<"y", "o", "u", "t", "u", "b", "e", ".", "c", "o", "m", "/", "e", "m", "b", "e", "d", "/">>,
                     <<"y", "o", "u", "t", "u", ".", "b", "e", "/">>,
                     <<"y", "o", "u", "t", "u", "b", "e", ".", "c", "o", "m", "/", "v", "/">>,
                     <<"y", "o", "u", "t", "u", "b", "e", ".", "c", "o", "m", "/", "s", "h", "o", "r", "t", "s", "/">> >>
            /\ Len(youtubePatterns) = 5
            /\ \A i \in 1..Len(out) :
                  /\ Len(out[i]) = Len(WatchPrefix) + 11
                  /\ SubSeq(out[i], 1, Len(WatchPrefix)) = WatchPrefix
                  /\ \A j \in 1..11 : IdOf(out[i])[j] \in IdChars
            /\ \A i, j \in 1..Len(out) : i # j => IdOf(out[i]) # IdOf(out[j])
            /\ {IdOf(out[i]) : i \in 1..Len(out)}
                  = UNION {{ms[k][i].id : i \in 1..Len(ms[k])} : k \in 1..5}
            /\ \A i, j \in 1..Len(out) : i < j =>
                  \/ FirstShape(ms, IdOf(out[i])) < FirstShape(ms, IdOf(out[j]))
                  \/ /\ FirstShape(ms, IdOf(out[i])) = FirstShape(ms, IdOf(out[j]))
                     /\ FirstPos(ms, IdOf(out[i])) < FirstPos(ms, IdOf(out[j]))

\* a text whose first URL is a short link and whose second is a watch URL of
\* another video: the watch URL's id is returned first
C9_Witness ==
    /\ xpc = "done"
    /\ Len(links.elems) = 2
    /\ Len(MatchesOf(3)) = 1 /\ Len(MatchesOf(1)) = 1
    /\ MatchesOf(3)[1].pos < MatchesOf(1)[1].pos
    /\ links.elems[1] = WatchPrefix \o MatchesOf(1)[1].id
    /\ links.elems[2] = WatchPrefix \o MatchesOf(3)[1].id

(***************************************************************************)
(* Properties of FetchPosts.                                               *)
(***************************************************************************)
\* the next link is absent, url.Parse rejects it, or none of its parameters
\* is a well-formed page[cursor] pair with a value
NoUsableCursor(parts) ==
    \/ parts.absent
    \/ ~parts.base.ok
    \/ \A i \in 1..Len(parts.params) : ~parts.params[i].cursor
    \/ \E i \in 1..Len(parts.params) :
          /\ parts.params[i].cursor /\ parts.params[i].val = << >>
          /\ \A j \in 1..(i - 1) : ~parts.params[j].cursor

\* C10 as claimed: a page FetchPosts returns has HasMore = FALSE whenever
\* the next link is absent, unparseable or carries no page cursor, and
\* HasMore = TRUE implies a non-empty NextCursor.
C10_HasMoreImpliesCursor ==
    (fpc = "done" /\ fetched.err = "") =>
        /\ NoUsableCursor(nextParts) => ~fetched.page.HasMore
        /\ fetched.page.HasMore => fetched.page.NextCursor # << >>

\* C10 amended: HasMore is TRUE exactly when the response carries a
\* non-empty next link; NextCursor is empty whenever the next link is absent,
\* unparseable or carries no page cursor, and otherwise is the value of the
\* link's first well-formed page[cursor] parameter.
C10_HasMoreIsNextPresent ==
    (fpc = "done" /\ fetched.err = "") =>
        /\ fetched.page.HasMore = ~nextParts.absent
        /\ NoUsableCursor(nextParts) => fetched.page.NextCursor = << >>
        /\ ~NoUsableCursor(nextParts) =>
              \E i \in 1..Len(nextParts.params) :
                  /\ nextParts.params[i].cursor
                  /\ \A j \in 1..(i - 1) : ~nextParts.params[j].cursor
                  /\ fetched.page.NextCursor = nextParts.params[i].val
                  /\ fetched.page.NextCursor # << >>

\* a page came back whose next link does not parse: HasMore is set, the cursor empty
C10_Witness ==
    /\ fpc = "done"
    /\ fetched.err = ""
    /\ ~nextParts.absent
    /\ ~nextParts.base.ok
    /\ Len(nextParts.params) = 2
    /\ nextParts.params[2].cursor /\ nextParts.params[2].val # << >>
    /\ fetched.page.HasMore
    /\ fetched.page.NextCursor = << >>

(***************************************************************************)
(* Properties of the batch workflow.                                       *)
(***************************************************************************)
\* the one well-formed cutoff among the inputs, and the day it names
CutoffText == <<"2", "0", "2", "4", "-", "0", "1", "-", "0", "1">>

HasCutoff == cfg.afterDate = CutoffText

BadCutoff == cfg.afterDate # << >> /\ cfg.afterDate # CutoffText

\* positions of the trace that hold an event of the kinds ks
EventsOf(ks) == {i \in 1..Len(trace) : trace[i].k \in ks}

\* the posts of a campaign in the order the remote lists them
Listed(cid) == Concat([k \in 1..Len(remote[cid]) |-> remote[cid][k].Data])

\* the workflow stands at a post published before the cutoff
AtOldPost == bpc = "post" /\ AtPost /\ HasCutoff /\ CurrentPost.PublishedAt < DayCutoff

\* the workflow stands at a post it has to process
AtNewPost == bpc = "post" /\ AtPost /\ (HasCutoff => CurrentPost.PublishedAt >= DayCutoff)

\* C11: with an empty campaign list, or with a non-empty cutoff text that is
\* not a date, the workflow makes no remote call, no sleep and no store
\* write, and what it returns is an error.
C11_FailFast ==
    (Len(cfg.Campaigns) = 0 \/ BadCutoff) =>
        /\ trace = << >>
        /\ bpc \in {"start", "done"}
        /\ bpc = "done" => ret.done /\ ret.err # ""

C11_Witness == bpc = "done" /\ ret.err = "invalid date" /\ Len(cfg.Campaigns) > 0

C11_WitnessEmpty == bpc = "done" /\ ret.err = "no campaigns" /\ cfg.afterDate = CutoffText

\* the campaign that lists the post, and the post's place in its listing
CampaignOfPost(id) == CHOOSE cid \in CampaignIds : \E k \in 1..Len(Listed(cid)) : Listed(cid)[k].ID = id

PlaceOf(id) ==
    LET ls == Listed(CampaignOfPost(id)) IN CHOOSE k \in 1..Len(ls) : ls[k].ID = id

\* no post listed at or before place k of the campaign is older than the cutoff
NoneOldUpTo(cid, k) == \A j \in 1..k : Listed(cid)[j].PublishedAt >= DayCutoff

\* C12: once a post published strictly before the cutoff is met, its
\* campaign ends at once and without error: no detail is fetched for that
\* post or a post listed after it, no further page of the campaign is
\* fetched; a post published exactly at the cutoff is processed; after the
\* campaign the workflow sleeps and goes on with the next campaign.
C12_CutoffStopsCampaign ==
    /\ [](HasCutoff =>
            /\ \A i \in EventsOf({"detail"}) :
                  NoneOldUpTo(CampaignOfPost(trace[i].id), PlaceOf(trace[i].id))
            /\ \A i \in EventsOf({"page"}) :
                  trace[i].cursor = SecondCursor =>
                      NoneOldUpTo(trace[i].cid, Len(remote[trace[i].cid][1].Data)))
    /\ [][/\ AtOldPost =>
                /\ bpc' = "campaignSleep"
                /\ trace' = Append(trace, [Event("return") EXCEPT !.cid = cfg.Campaigns[run.ci],
                                                                   !.links = run.c.allLinks])
                /\ posts' = posts /\ ret' = ret
          /\ (bpc = "post" /\ AtPost /\ HasCutoff /\ CurrentPost.PublishedAt = DayCutoff) =>
                /\ run'.c.pi = run.c.pi + 1
                /\ bpc' \in {"post", "postSleep"}
          /\ bpc = "campaignSleep" =>
                /\ bpc' = "campaign" /\ run'.ci = run.ci + 1
                /\ trace' = Append(trace, Event("sleep"))
          /\ (bpc = "campaign" /\ run.ci <= Len(cfg.Campaigns)) =>
                /\ bpc' = "page" /\ run'.c.cursor = << >> /\ run'.ci = run.ci]_vars

\* the first campaign ended at its second post, with a further page on
\* offer, and the second campaign was fetched
C12_Witness ==
    /\ bpc = "done" /\ HasCutoff
    /\ cfg.Campaigns = <<"c1", "c2">>
    /\ remote = Feed(DayAfter, DayBefore, NextCursorLink)
    /\ \E i \in EventsOf({"return"}) : trace[i].cid = "c1" /\ ~trace[i].err
    /\ \E i \in EventsOf({"page"}) : trace[i].cid = "c2"
    /\ \E i \in EventsOf({"detail"}) : trace[i].id = "p1"

\* the link lists a stored text of these runs can be the encoding of: the
\* list saved before the run and the lists the run fetches
KnownLists ==
    {MkSlice(<<LinkA, LinkQ>>)} \cup {DetailAnswers[id][FALSE].details.YouTubeLinks : id \in BatchPostIds}

\* the links a stored text stands for: those of the list it encodes, none
\* when it encodes no list
LinksIn(stored) ==
    IF stored.valid /\ \E l \in KnownLists : Marshal(l) = stored.str
    THEN (CHOOSE l \in KnownLists : Marshal(l) = stored.str).elems
    ELSE << >>

StoredRow(id) == CHOOSE r \in posts : r.id = id

\* C13: at a post at or after the cutoff that the store reports as
\* detailsCached the workflow fetches no detail, writes nothing, adds to the
\* campaign's links exactly the links the stored text encodes (none for an
\* empty, NULL or malformed text) and goes on with the next post.
C13_CachedDetailReused ==
    [][(AtNewPost /\ IsPostDetailsCached(posts, CurrentPost.ID).cached) =>
          /\ trace' = trace
          /\ posts' = posts
          /\ run'.c.allLinks.elems = run.c.allLinks.elems \o LinksIn(StoredRow(CurrentPost.ID).youtube_links)
          /\ run'.c.pi = run.c.pi + 1
          /\ bpc' = "post" /\ ret' = ret]_vars

\* cached rows of the three kinds were met in one run: a list, an empty
\* text, a text that does not parse
C13_Witness ==
    /\ bpc = "done"
    /\ cfg.Campaigns = <<"c1", "c2">>
    /\ ~(\E r \in posts : ~r.details_cached /\ r.id # "p3")
    /\ \E r \in posts : r.youtube_links = ValidString(MalformedLinks)
    /\ \E i \in EventsOf({"return"}) : trace[i].cid = "c1" /\ ~trace[i].err /\ trace[i].links.elems = <<LinkA, LinkQ>>
    /\ \E i \in EventsOf({"return"}) : trace[i].cid = "c2" /\ ~trace[i].err /\ trace[i].links = NilSlice
    /\ EventsOf({"detail"}) = {}

\* C14: every detail the workflow fetched successfully is persisted: from
\* then on the store reports the post as detailsCached and GetPost returns
\* the fetched description and the fetched links, so that the post's detail
\* is fetched successfully at most once - whatever the store held at the
\* start, also when it had no row for the post.
C14_FetchedDetailPersisted ==
    /\ \A i \in EventsOf({"detail"}) :
          ~trace[i].err =>
              LET id == trace[i].id
                  d == DetailAnswers[id][FALSE].details
                  g == GetPost(posts, id)
              IN  /\ IsPostDetailsCached(posts, id).cached
                  /\ g.found /\ g.post.DetailsCached
                  /\ g.post.Description = d.Description
                  /\ g.post.YouTubeLinks = Marshal(d.YouTubeLinks)
    /\ \A i, j \in EventsOf({"detail"}) :
          (i < j /\ ~trace[i].err /\ ~trace[j].err) => trace[i].id # trace[j].id

\* C15: between any two consecutive remote calls of a run, page fetches and
\* detail fetches alike, whether the earlier succeeded or failed, there is
\* at least one sleep.
C15_SleepBetweenCalls ==
    \A i, j \in EventsOf({"page", "detail"}) :
        i < j => \E s \in (i + 1)..(j - 1) : trace[s].k = "sleep"

\* the same for the calls that follow a call that succeeded
C15_SleepAfterSuccess ==
    \A i, j \in EventsOf({"page", "detail"}) :
        (i < j /\ ~(trace[i].k = "page" /\ trace[i].err)) =>
            \E s \in (i + 1)..(j - 1) : trace[s].k = "sleep"

IsReturn(e) == e.k = "return"

\* what the calls of extractLinksFromCampaign returned, in order
Returns == SelectSeq(trace, IsReturn)

RECURSIVE Dedup(_)
\* a sequence without its later duplicates
Dedup(s) ==
    IF s = << >> THEN << >>
    ELSE LET front == Dedup(SubSeq(s, 1, Len(s) - 1))
         IN  IF \E k \in 1..Len(front) : front[k] = s[Len(s)] THEN front
             ELSE Append(front, s[Len(s)])

\* the link sequences of the campaigns, one after the other; the sequence
\* of a campaign is what extractLinksFromCampaign returned for it with a nil
\* error
CampaignLinks ==
    Concat([k \in 1..Len(Returns) |-> IF Returns[k].err THEN << >> ELSE Returns[k].links.elems])

\* C16: the campaigns are processed in the order of the input, one call of
\* extractLinksFromCampaign each; the emitted list is the concatenation of
\* the campaigns' link sequences without the later duplicates; when it is
\* empty the workflow prints that no links were found and returns no error.
C16_MergedInOrder ==
    /\ Len(Returns) <= Len(cfg.Campaigns)
    /\ \A k \in 1..Len(Returns) : Returns[k].cid = cfg.Campaigns[k]
    /\ \A i \in EventsOf({"page"}) :
          trace[i].cid = cfg.Campaigns[1 + Cardinality({j \in EventsOf({"return"}) : j < i})]
    /\ (bpc = "done" /\ Len(cfg.Campaigns) > 0 /\ ~BadCutoff) =>
          /\ Len(Returns) = Len(cfg.Campaigns)
          /\ ret.links.elems = Dedup(CampaignLinks)
          /\ ret.links.elems = << >> => ret.printed = "no links" /\ ret.err = ""
          /\ ret.links.elems # << >> => ret.printed = "links" /\ ret.err = ""

\* two campaigns whose sequences share a link, emitted once
C16_Witness ==
    /\ bpc = "done"
    /\ cfg.Campaigns = <<"c1", "c2">>
    /\ Len(CampaignLinks) > Len(ret.links.elems)
    /\ Len(ret.links.elems) = 2
    /\ \A k \in 1..2 : ~Returns[k].err /\ Returns[k].links.elems # << >>

C16_WitnessEmpty == bpc = "done" /\ Len(cfg.Campaigns) = 2 /\ ret.printed = "no links"

\* the campaign call an event of the trace belongs to: the first, second, ...
SegmentOf(i) == 1 + Cardinality({j \in EventsOf({"return"}) : j < i})

\* the page of its campaign that lists the post, and the posts behind it on
\* that page
PageOfPost(id) ==
    LET pages == remote[CampaignOfPost(id)]
    IN  CHOOSE k \in 1..Len(pages) : \E j \in 1..Len(pages[k].Data) : pages[k].Data[j].ID = id

PostsBehind(id) ==
    LET data == remote[CampaignOfPost(id)][PageOfPost(id)].Data
        at == CHOOSE j \in 1..Len(data) : data[j].ID = id
    IN  SubSeq(data, at + 1, Len(data))

IsOld(p) == HasCutoff /\ p.PublishedAt < DayCutoff

\* the event the step adds to the trace first
NewEvent == trace'[Len(trace) + 1]

\* C17: a failed page fetch ends only its campaign: the run goes on with the
\* next campaign, every configured campaign gets its first page fetch and
\* the workflow returns no error; a failed detail fetch skips only its post:
\* the next post of the page is processed and the next page is fetched.
C17_FailuresAreLocal ==
    /\ [][/\ (Len(trace') > Len(trace) /\ NewEvent.k = "page" /\ NewEvent.err) =>
                /\ bpc' = "campaign" /\ run'.ci = run.ci + 1
                /\ run'.allLinks = run.allLinks /\ ret' = ret /\ posts' = posts
          /\ (Len(trace') > Len(trace) /\ NewEvent.k = "detail" /\ NewEvent.err) =>
                /\ bpc' = "postSleep" /\ run'.c.pi = run.c.pi + 1
                /\ run'.c.page = run.c.page /\ run'.c.allLinks = run.c.allLinks
                /\ run'.ci = run.ci /\ ret' = ret /\ posts' = posts]_vars
    /\ []((bpc = "done" /\ Len(cfg.Campaigns) > 0 /\ ~BadCutoff) =>
            /\ ret.done /\ ret.err = ""
            /\ \A k \in 1..Len(cfg.Campaigns) :
                  \E i \in EventsOf({"page"}) :
                      SegmentOf(i) = k /\ trace[i].cid = cfg.Campaigns[k]
                      /\ trace[i].cursor = RequestCursor(<< >>)
            /\ \A i \in EventsOf({"detail"}) :
                  trace[i].err =>
                      LET id == trace[i].id
                          behind == PostsBehind(id)
                          pg == remote[CampaignOfPost(id)][PageOfPost(id)]
                      IN  /\ (behind # << >> /\ ~IsOld(behind[1])) =>
                                \/ \E j \in EventsOf({"detail"}) :
                                      j > i /\ SegmentOf(j) = SegmentOf(i) /\ trace[j].id = behind[1].ID
                                \/ IsPostDetailsCached(posts, behind[1].ID).cached
                          /\ (pg.Next = NextCursorLink /\ \A b \in 1..Len(behind) : ~IsOld(behind[b])) =>
                                \E j \in EventsOf({"page"}) :
                                    j > i /\ SegmentOf(j) = SegmentOf(i) /\ trace[j].cursor = SecondCursor)

\* the page fetch of the first campaign failed and the second campaign was
\* listed; in another campaign call the detail fetch of p1 failed, p2 was
\* fetched and so was the second page
C17_Witness ==
    /\ bpc = "done" /\ ret.err = ""
    /\ cfg.Campaigns = <<"c2", "c1">>
    /\ \E i \in EventsOf({"page"}) : trace[i].cid = "c2" /\ trace[i].err
    /\ \E i, j, n \in 1..Len(trace) :
          /\ i < j /\ j < n
          /\ trace[i].k = "detail" /\ trace[i].id = "p1" /\ trace[i].err
          /\ trace[j].k = "detail" /\ trace[j].id = "p2" /\ ~trace[j].err
          /\ trace[n].k = "page" /\ trace[n].cursor = SecondCursor /\ ~trace[n].err

(***************************************************************************)
(* Properties of the interactive browser.                                  *)
(***************************************************************************)
\* the screen changes of the claim's list
ListedScreenChanges ==
    {<<"Input", "Loading">>, <<"Loading", "List">>, <<"Loading", "Details">>,
     <<"Loading", "Error">>, <<"List", "Details">>, <<"List", "Loading">>,
     <<"Details", "List">>, <<"Details", "Loading">>, <<"Error", "Loading">>,
     <<"Error", "Input">>}

\* the step changes the screen
ScreenChanges == ui'.state # ui.state

\* C18 as stated: Input is the initial screen and every change of screen is
\* one of the ten listed changes.
C18_ScreenGraphAsStated ==
    /\ ui.state = "Input"
    /\ [][ScreenChanges => <<ui.state, ui'.state>> \in ListedScreenChanges]_vars

\* C18: Input is the initial screen and every change of screen is one of the
\* ten listed changes or List->Input, the step esc takes in List; no other
\* screen change is reachable by keys and fetch results.
C18_ScreenGraph ==
    /\ ui.state = "Input"
    /\ [][ScreenChanges =>
            <<ui.state, ui'.state>> \in ListedScreenChanges \cup {<<"List", "Input">>}]_vars

\* esc was pressed in List and the browser is back at the campaign input:
\* no fetch has failed so far, so the step did not start in Error
C18_Witness ==
    /\ ui.state = "Input" /\ ~ui.quit
    /\ handled = [kind |-> "key", key |-> "esc"]
    /\ ui.err = ""
    /\ ui.campaignID # ""

\* the step is Update handling the key k on the screen s
KeyStep(s, k) == ui.state = s /\ ~ui.quit /\ handled' = [kind |-> "key", key |-> k]

\* the post under the list cursor
SelectedPost == ui.posts[ui.cursor + 1]

\* the links of a stored row, decoded
DecodedLinks(r) ==
    IF r.youtube_links.valid /\ r.youtube_links.str # << >>
    THEN UnmarshalStored(r.youtube_links.str).slice ELSE NilSlice

\* C19: confirm on a post in List whose detail is cached in the store shows
\* Details with the stored description and the decoded stored links, link
\* cursor 0, and dispatches nothing; on a post that is not cached it goes to
\* Loading and dispatches exactly one detail fetch for that post; the
\* successful result of a detail fetch lands in Details with that post's
\* detail; with an empty list confirm changes nothing.
C19_ConfirmOnPost ==
    /\ [][KeyStep("List", "enter") =>
            IF Len(ui.posts) = 0
            THEN ui' = ui /\ units' = units /\ posts' = posts
            ELSE IF IsPostDetailsCached(posts, SelectedPost.ID).cached
            THEN /\ ui'.state = "Details"
                 /\ ui'.postDetails.ID = SelectedPost.ID
                 /\ ui'.postDetails.Description = StoredRow(SelectedPost.ID).description.str
                 /\ ui'.postDetails.YouTubeLinks = DecodedLinks(StoredRow(SelectedPost.ID))
                 /\ ui'.linkCursor = 0
                 /\ units' = units /\ units = << >>
                 /\ posts' = posts
            ELSE /\ ui'.state = "Loading"
                 /\ units' = <<DetailsUnit(SelectedPost.ID)>>
                 /\ posts' = posts]_vars
    /\ [][(/\ handled'.kind = "PostDetailsFetchedMsg"
           /\ Len(units) > 0 /\ units[1].kind = "details" /\ units[1].msg.Err = "") =>
            /\ ui'.state = "Details"
            /\ ui'.postDetails.ID = units[1].postID
            /\ ui'.postDetails = [isNil |-> FALSE, ID |-> units[1].msg.Details.ID,
                                  Description |-> units[1].msg.Details.Description,
                                  YouTubeLinks |-> units[1].msg.Details.YouTubeLinks]
            /\ ui'.linkCursor = 0]_vars

\* a confirm showed a cached post with two stored links, without a fetch
C19_Witness ==
    /\ ui.state = "Details" /\ handled = [kind |-> "key", key |-> "enter"]
    /\ units = << >>
    /\ ui.cachedDetails # ""
    /\ Len(ui.postDetails.YouTubeLinks.elems) = 2

\* a confirm on a post that was not cached fetched its detail, and the
\* result is on display
C19_WitnessFetched ==
    /\ ui.state = "Details" /\ handled.kind = "PostDetailsFetchedMsg"
    /\ ui.cachedDetails = ""
    /\ ~ui.postDetails.isNil

\* a confirm on an empty list
C19_WitnessEmpty ==
    /\ ui.state = "List" /\ handled = [kind |-> "key", key |-> "enter"]
    /\ Len(ui.posts) = 0

\* C20: page-forward in List is taken only when hasMorePages holds and the
\* next cursor is not empty; taken, it raises the page number by exactly one,
\* goes to Loading and dispatches one page fetch, for that next cursor and
\* the campaign on display; not taken, the key changes neither the page
\* number, the history, the screen, nor dispatches a fetch.
C20_PageForwardGuard ==
    [][KeyStep("List", "n") =>
          IF ui.hasMorePages /\ ui.nextCursor # << >>
          THEN /\ ui'.currentPage = ui.currentPage + 1
               /\ ui'.state = "Loading"
               /\ units' = units \o <<PostsUnit(ui.campaignID, ui.nextCursor)>>
               /\ units = << >>
          ELSE /\ ui'.currentPage = ui.currentPage
               /\ ui'.cursorHistory = ui.cursorHistory
               /\ ui'.state = ui.state
               /\ units' = units]_vars

\* page-forward was taken: the fetch for the second page is dispatched
C20_Witness ==
    /\ ui.state = "Loading" /\ handled = [kind |-> "key", key |-> "n"]
    /\ ui.currentPage = 2
    /\ Len(units) = 1 /\ units[1].kind = "posts" /\ units[1].cursor # << >>

\* page-forward was pressed with hasMorePages set and no cursor to send
C20_WitnessNoCursor ==
    /\ ui.state = "List" /\ handled = [kind |-> "key", key |-> "n"]
    /\ ui.hasMorePages /\ ui.nextCursor = << >>
    /\ units = << >>

\* C21: a page-forward whose fetch succeeds, followed at once by a
\* page-backward, requests the cursor the page on display before the forward
\* step was fetched with, and sets the page number to what it was before the
\* forward step.
C21_ForwardThenBack ==
    [][(KeyStep("List", "p") /\ nav.fwd.phase = "forward") =>
          /\ ui'.state = "Loading"
          /\ units' = <<PostsUnit(ui.campaignID, nav.fwd.cursor)>>
          /\ ui'.currentPage = nav.fwd.page]_vars

\* forward from the second page to the third and back: the second page is
\* on display again, fetched with its cursor
C21_Witness ==
    /\ nav.fwd.phase = "back" /\ nav.fwd.page = 2 /\ nav.fwd.cursor = SecondCursor
    /\ ui.state = "List" /\ handled.kind = "PostsFetchedMsg"
    /\ ui.currentPage = 2 /\ nav.shown = SecondCursor

\* forward from the first page and back, a second time: the history holds
\* two sentinels and the first page is requested with the empty cursor
C21_WitnessFirstPage ==
    /\ nav.fwd.phase = "back" /\ nav.fwd.page = 1 /\ nav.fwd.cursor = << >>
    /\ ui.state = "Loading" /\ Len(ui.cursorHistory) = 2
    /\ ui.currentPage = 1

\* C22: plain refresh in List dispatches one page fetch for the cursor the
\* page on display was fetched with, the empty cursor on page 1, and leaves
\* the cursor history and the page number as they were.
C22_RefreshSamePage ==
    [][KeyStep("List", "r") =>
          /\ ui'.state = "Loading"
          /\ units' = <<PostsUnit(ui.campaignID, nav.shown)>>
          /\ (ui.currentPage = 1 => nav.shown = << >>)
          /\ ui'.cursorHistory = ui.cursorHistory
          /\ ui'.currentPage = ui.currentPage]_vars

\* a refresh of the second page, with the history of a forward step
C22_Witness ==
    /\ ui.state = "Loading" /\ handled = [kind |-> "key", key |-> "r"]
    /\ ui.currentPage = 2
    /\ Len(units) = 1 /\ units[1].cursor = SecondCursor
    /\ ui.cursorHistory = << << >>, SecondCursor >>

\* a refresh of the first page after coming back to it: the history is not
\* empty and the empty cursor is requested
C22_WitnessFirstPage ==
    /\ ui.state = "Loading" /\ handled = [kind |-> "key", key |-> "r"]
    /\ ui.currentPage = 1 /\ Len(ui.cursorHistory) > 0
    /\ Len(units) = 1 /\ units[1].cursor = << >>

\* every row with a cached detail is still there after the step, cached, with
\* the same description and links
CachedDetailsKept ==
    \A r \in posts : r.details_cached =>
        \E q \in posts' : /\ q.id = r.id /\ q.details_cached
                          /\ q.description = r.description
                          /\ q.youtube_links = r.youtube_links

C23_WitnessRefetched ==
    /\ ui.state = "Loading" /\ handled.kind = "unit"
    /\ Len(units) = 1 /\ units[1].kind = "posts" /\ units[1].done /\ units[1].msg.Err = ""
    /\ \E r \in posts : r.details_cached /\ r.description # ValidString(OldDescription)

\* the row of a post in a posts table
RowOf(rows, id) == CHOOSE r \in rows : r.id = id

\* the rows of all posts but one are the same in both tables
OtherRowsSame(id) == {r \in posts : r.id # id} = {r \in posts' : r.id # id}

\* C24: forced refresh in Details clears the stored detail of the post on
\* display, so that the store reports it uncached, marks that post and no
\* other uncached in the list, goes to Loading and dispatches one detail
\* fetch for that post; the successful result stores the detail again and
\* marks the post cached; the rows of the other posts are not touched.
C24_ForceRefreshDetail ==
    /\ [][KeyStep("Details", "R") =>
            LET id == ui.postDetails.ID
            IN  /\ ~IsPostDetailsCached(posts', id).cached
                /\ ui.posts[ui.cursor + 1].ID = id
                /\ ui'.posts = [ui.posts EXCEPT ![ui.cursor + 1].DetailsCached = FALSE]
                /\ ui'.state = "Loading"
                /\ units' = <<DetailsUnit(id)>>
                /\ OtherRowsSame(id)]_vars
    /\ [][(/\ handled'.kind = "PostDetailsFetchedMsg"
           /\ Len(units) > 0 /\ units[1].kind = "details" /\ units[1].msg.Err = "") =>
            LET id == units[1].postID
                d == units[1].msg.Details
            IN  /\ IsPostDetailsCached(posts', id).cached
                /\ RowOf(posts', id).description = ValidString(d.Description)
                /\ DecodedLinks(RowOf(posts', id)).elems = d.YouTubeLinks.elems
                /\ \E k \in 1..Len(ui'.posts) : ui'.posts[k].ID = id /\ ui'.posts[k].DetailsCached
                /\ \A k \in 1..Len(ui.posts) : ui.posts[k].ID # id => ui'.posts[k] = ui.posts[k]
                /\ OtherRowsSame(id)]_vars

\* R was pressed on a detail that was cached: the store and the list now
\* hold it uncached while another post's detail stays cached
C24_Witness ==
    /\ ui.state = "Loading" /\ handled = [kind |-> "key", key |-> "R"]
    /\ Len(units) = 1 /\ units[1].kind = "details" /\ units[1].postID = "p1"
    /\ ~IsPostDetailsCached(posts, "p1").cached
    /\ IsPostDetailsCached(posts, "p2").cached
    /\ ~ui.posts[1].DetailsCached /\ ui.posts[2].DetailsCached

\* the refetched detail is stored again
C24_WitnessStored ==
    /\ ui.state = "Details" /\ handled.kind = "PostDetailsFetchedMsg"
    /\ ui.postDetails.ID = "p1" /\ ui.posts[1].DetailsCached
    /\ IsPostDetailsCached(posts, "p1").cached
    /\ RowOf(posts, "p1").description # ValidString(OldDescription)
    /\ IsPostDetailsCached(posts, "p2").cached

\* C25: when the Error screen was reached by a failed page fetch for the
\* cursor c, retry goes to Loading and dispatches one page fetch for c, with
\* the page number and the cursor history as they were.
C25_RetrySamePage ==
    [][(KeyStep("Error", "r") /\ nav.failed.kind = "posts") =>
          /\ ui'.state = "Loading"
          /\ units' = <<PostsUnit(ui.campaignID, nav.failed.cursor)>>
          /\ ui'.currentPage = ui.currentPage
          /\ ui'.cursorHistory = ui.cursorHistory]_vars

\* the retry of a failed fetch of the third page
C25_Witness ==
    /\ ui.state = "Loading" /\ handled = [kind |-> "key", key |-> "r"]
    /\ nav.failed = [kind |-> "posts", cursor |-> ThirdCursor]
    /\ units = <<PostsUnit("c1", ThirdCursor)>>
    /\ ui.currentPage = 3

\* the retry of a failed page-backward to the first page
C25_WitnessBackward ==
    /\ ui.state = "Loading" /\ handled = [kind |-> "key", key |-> "r"]
    /\ nav.failed = [kind |-> "posts", cursor |-> << >>]
    /\ units = <<PostsUnit("c1", << >>)>>
    /\ ui.currentPage = 1 /\ Len(ui.cursorHistory) > 0

\* the step applies the failed result of the i-th dispatched fetch
FailedResult(i) ==
    /\ handled'.kind \in {"PostsFetchedMsg", "PostDetailsFetchedMsg"}
    /\ units[i].done /\ units[i].msg.Err # ""
    /\ units' = Remove(units, i)

\* C26: a failed fetch result, of a page or of a post's detail, takes the
\* browser from Loading to Error with the result's error in err, and the
\* listed posts, the next cursor, the more-pages flag, the clipboard and the
\* store are as before; in Error, until the program quits, retry and back
\* are both enabled.
C26_FailedFetchToError ==
    /\ [][\A i \in 1..Len(units) : FailedResult(i) =>
             /\ ui.state = "Loading" /\ ui'.state = "Error"
             /\ ui'.err = units[i].msg.Err
             /\ ui'.posts = ui.posts
             /\ ui'.nextCursor = ui.nextCursor
             /\ ui'.hasMorePages = ui.hasMorePages
             /\ ui'.clipboardLinks = ui.clipboardLinks
             /\ ui'.clipboardCursor = ui.clipboardCursor
             /\ campaigns' = campaigns /\ posts' = posts]_vars
    /\ []((ui.state = "Error" /\ ~ui.quit) => (ENABLED ErrorRetry /\ ENABLED BackToInput))

\* a page fetch failed with posts listed, a next cursor, links on the
\* clipboard and rows in the store
C26_Witness ==
    /\ ui.state = "Error" /\ handled.kind = "PostsFetchedMsg"
    /\ ui.err # "" /\ Len(ui.posts) > 0 /\ ui.hasMorePages /\ ui.nextCursor # << >>
    /\ Len(ui.clipboardLinks) > 1 /\ posts # {}

\* a detail fetch failed
C26_WitnessDetail ==
    /\ ui.state = "Error" /\ handled.kind = "PostDetailsFetchedMsg"
    /\ ui.err # "" /\ Len(ui.posts) > 0 /\ Len(ui.clipboardLinks) > 0

\* no link is held twice
NoDuplicates(s) == \A i, j \in 1..Len(s) : s[i] = s[j] => i = j

\* the step handles the key k on a screen where the clipboard keys act
ClipboardKeyStep(k) ==
    ClipboardScreen /\ ~ui.quit /\ handled' = [kind |-> "key", key |-> k]

\* C27: the clipboard never holds a link twice and its cursor is within
\* [0, len-1], 0 when it is empty; adding a link it already holds, and adding
\* all shown links when it holds them all, leave the sequence as it was;
\* removing at the cursor from a non-empty clipboard shortens the sequence by
\* one: the element at the cursor goes, the others keep their order.
C27_ClipboardInvariant ==
    /\ [](/\ NoDuplicates(ui.clipboardLinks)
          /\ ui.clipboardCursor >= 0
          /\ ui.clipboardCursor <= (IF Len(ui.clipboardLinks) = 0 THEN 0
                                    ELSE Len(ui.clipboardLinks) - 1))
    /\ [][\A k \in {"a", "enter"} :
             (/\ KeyStep("Details", k) /\ Len(ShownLinks) > 0
              /\ InClipboard(ui.clipboardLinks, ShownLinks[ui.linkCursor + 1]))
             => ui'.clipboardLinks = ui.clipboardLinks]_vars
    /\ [][(/\ KeyStep("Details", "A")
           /\ \A n \in 1..Len(ShownLinks) : InClipboard(ui.clipboardLinks, ShownLinks[n]))
          => ui'.clipboardLinks = ui.clipboardLinks]_vars
    /\ [][(ClipboardKeyStep("x") /\ Len(ui.clipboardLinks) > 0) =>
             /\ Len(ui'.clipboardLinks) = Len(ui.clipboardLinks) - 1
             /\ \A n \in 1..Len(ui'.clipboardLinks) :
                   ui'.clipboardLinks[n] =
                       IF n <= ui.clipboardCursor THEN ui.clipboardLinks[n]
                       ELSE ui.clipboardLinks[n + 1]]_vars

\* the middle link of three was removed
C27_Witness ==
    /\ handled = [kind |-> "key", key |-> "x"]
    /\ Len(ui.clipboardLinks) = 2 /\ ui.clipboardCursor = 1
    /\ ui.statusMessage = "Removed link from clipboard"
    /\ \E n \in 1..Len(ShownLinks) :
          /\ n > 1 /\ n < Len(ShownLinks)
          /\ ~InClipboard(ui.clipboardLinks, ShownLinks[n])

\* the last link of the clipboard was removed with the cursor on it
C27_WitnessLast ==
    /\ handled = [kind |-> "key", key |-> "x"]
    /\ Len(ui.clipboardLinks) = 2 /\ ui.clipboardCursor = 1
    /\ ui.statusMessage = "Removed link from clipboard"
    /\ Len(ShownLinks) = 3
    /\ \A n \in 1..2 : InClipboard(ui.clipboardLinks, ShownLinks[n])

\* a link the clipboard holds was added again
C27_WitnessPresent ==
    /\ handled.kind = "key" /\ handled.key \in {"a", "enter"}
    /\ ui.statusMessage = "Link already in clipboard"
    /\ Len(ui.clipboardLinks) > 1

\* all links were added when the clipboard held them all
C27_WitnessAllPresent ==
    /\ handled = [kind |-> "key", key |-> "A"]
    /\ ui.statusMessage = "All links already in clipboard"
    /\ Len(ui.clipboardLinks) = 3

\* the step is one of the four clipboard edits: a or enter in Details with
\* links shown, A in Details with links shown, x or X in List or Details
ClipboardEdit ==
    \/ \E k \in {"a", "enter", "A"} : KeyStep("Details", k) /\ Len(ShownLinks) > 0
    \/ \E k \in {"x", "X"} : ClipboardKeyStep(k)

\* C28: only add-one, add-all, remove-at-cursor and clear-all change the
\* clipboard's sequence: the copy to the system clipboard, every other key
\* (cursor moves, paging, refresh, back, the campaign input and its enter),
\* every run of a fetch and every fetch result leave it as it was.
C28_ClipboardFrame ==
    [][ui'.clipboardLinks # ui.clipboardLinks => ClipboardEdit]_vars

\* a copy to the system clipboard was made of three links, in the order they
\* were added in
C28_Witness ==
    /\ handled.kind = "key" /\ handled.key \in {"c", "y"}
    /\ ui.statusMessage = "Copied 3 links to clipboard!"
    /\ Len(ui.clipboardLinks) = 3

\* a first page was loaded anew with links on the clipboard
C28_WitnessReload ==
    /\ handled.kind = "PostsFetchedMsg" /\ ui.state = "List"
    /\ ui.currentPage = 1 /\ ui.cursorHistory = << >>
    /\ Len(ui.clipboardLinks) > 1 /\ ui.clipboardCursor > 0

\* a failed copy
C28_WitnessFailed ==
    /\ ui.statusMessage = "Failed to copy to clipboard"
    /\ Len(ui.clipboardLinks) > 0

(***************************************************************************)
(* The delay between the requests of the batch workflow.                   *)
(***************************************************************************)
\* the floor and default of request_delay_min_ms
MinDelayFloor == 1000

\* the default of request_delay_max_ms
MaxDelayDefault == 3000

\* the configured request_delay_min_ms and request_delay_max_ms: negative,
\* unset (0), below, at and above the floor and the default
DelayValues == {-1, 0, 999, 1000, 1001, 2999, 3000, 3001}

DelayConfigs ==
    [Campaigns : {<< >>}, afterDate : {<< >>},
     RequestDelayMinMs : DelayValues, RequestDelayMaxMs : DelayValues]

\* (c *Config) GetRequestDelayMinMs
GetRequestDelayMinMs(c) ==
    IF c.RequestDelayMinMs < MinDelayFloor THEN MinDelayFloor ELSE c.RequestDelayMinMs

\* (c *Config) GetRequestDelayMaxMs
GetRequestDelayMaxMs(c) ==
    IF c.RequestDelayMaxMs <= 0 THEN MaxDelayDefault
    ELSE IF c.RequestDelayMaxMs < GetRequestDelayMinMs(c) THEN GetRequestDelayMinMs(c)
    ELSE c.RequestDelayMaxMs

\* the values rand.Intn(n) can return
Intn(n) == 0..(n - 1)

\* the durations randomDelay(minMs, maxMs) can sleep for, in milliseconds
randomDelay(minMs, maxMs) ==
    IF maxMs <= minMs THEN {minMs} ELSE {minMs + r : r \in Intn(maxMs - minMs)}

\* the workflow reads minDelayMs and maxDelayMs from the configuration and
\* sleeps: run holds the two and the duration of the sleep
RandomDelay ==
    /\ bpc = "idle"
    /\ \E d \in randomDelay(GetRequestDelayMinMs(cfg), GetRequestDelayMaxMs(cfg)) :
          run' = [minDelayMs |-> GetRequestDelayMinMs(cfg),
                  maxDelayMs |-> GetRequestDelayMaxMs(cfg), delay |-> d]
    /\ bpc' = "slept"
    /\ UNCHANGED <<storeVars, extractVars, fetchVars, uiVars, cfg, remote, trace, ret>>

\* randomDelay returned: the workflow goes on to its next request
DelayReturn ==
    /\ bpc = "slept"
    /\ bpc' = "idle"
    /\ run' = RunLocals
    /\ UNCHANGED <<storeVars, extractVars, fetchVars, uiVars, cfg, remote, trace, ret>>

\* the sleeps of the batch workflow, for every configured pair of delays
InitDelay ==
    /\ cfg \in DelayConfigs
    /\ remote = Feed(DayAfter, DayAfter, << >>)
    /\ bpc = "idle" /\ run = RunLocals /\ trace = << >> /\ ret = NoReturn
    /\ StoreInit /\ ExtractIdle /\ FetchIdle /\ UiIdle

NextDelay ==
    \/ RandomDelay
    \/ DelayReturn

SpecDelay == InitDelay /\ [][NextDelay]_vars

\* C29: for every configured pair the effective minimum is at least 1000,
\* the effective maximum is at least the effective minimum, and every sleep
\* lasts at least the minimum, less than the maximum when the maximum is
\* above the minimum and exactly the minimum otherwise.
C29_DelayBounds ==
    /\ GetRequestDelayMinMs(cfg) >= 1000
    /\ GetRequestDelayMaxMs(cfg) >= GetRequestDelayMinMs(cfg)
    /\ bpc = "slept" =>
          /\ run.minDelayMs <= run.delay
          /\ IF run.maxDelayMs > run.minDelayMs THEN run.delay < run.maxDelayMs
             ELSE run.delay = run.minDelayMs

\* the part about the minimum and the sleeps: the effective minimum is at
\* least 1000 and every sleep is within the bounds the workflow read
C29_SleepWithinBounds ==
    /\ GetRequestDelayMinMs(cfg) >= 1000
    /\ bpc = "slept" =>
          /\ run.minDelayMs = GetRequestDelayMinMs(cfg)
          /\ run.maxDelayMs = GetRequestDelayMaxMs(cfg)
          /\ run.minDelayMs <= run.delay
          /\ IF run.maxDelayMs > run.minDelayMs THEN run.delay < run.maxDelayMs
             ELSE run.delay = run.minDelayMs

\* the maximum is at least the minimum when a maximum is configured
C29_ConfiguredMaxAtLeastMin ==
    cfg.RequestDelayMaxMs > 0 => GetRequestDelayMaxMs(cfg) >= GetRequestDelayMinMs(cfg)

\* a sleep with the minimum configured above the default maximum and no
\* maximum configured
C29_Witness ==
    /\ bpc = "slept"
    /\ cfg.RequestDelayMinMs > MaxDelayDefault /\ cfg.RequestDelayMaxMs <= 0
    /\ run.maxDelayMs < run.minDelayMs /\ run.delay = run.minDelayMs

\* the longest sleep of the default configuration
C29_WitnessDefault ==
    /\ bpc = "slept"
    /\ cfg.RequestDelayMinMs = 0 /\ cfg.RequestDelayMaxMs = 0
    /\ run.delay = MaxDelayDefault - 1

\* the step applies the result of a dispatched fetch
ResultStep == handled'.kind \in {"PostsFetchedMsg", "PostDetailsFetchedMsg"} /\ units' # units

\* C30: at most one dispatched fetch awaits the delivery of its result, and
\* one does exactly when the screen is Loading; every fetch result is applied
\* in Loading; a key other than the quit key, handled in Loading, changes
\* nothing of the model and dispatches no fetch.
C30_LoadingGate ==
    /\ [](Len(units) <= 1 /\ (Len(units) = 1 <=> ui.state = "Loading"))
    /\ [][ResultStep => (ui.state = "Loading" /\ units' = << >>)]_vars
    /\ [][(ui.state = "Loading" /\ handled'.kind = "key" /\ handled'.key # "q")
          => (ui' = ui /\ units' = units)]_vars

\* a key was handled in Loading, after keys that left a status message, with
\* the fetch's result ready for delivery
C30_Witness ==
    /\ ui.state = "Loading" /\ ~ui.quit
    /\ handled = [kind |-> "key", key |-> "any"]
    /\ Len(units) = 1 /\ units[1].done
    /\ Len(ui.clipboardLinks) > 0

\* a result was applied
C30_WitnessApplied ==
    /\ handled.kind = "PostDetailsFetchedMsg" /\ ui.state = "Details"
    /\ units = << >> /\ Len(ui.clipboardLinks) > 0

\* the browser on the campaign of two pages, with the runtime's scheduling:
\* a dispatched fetch runs to its end (the HTTP client gives up after its
\* timeout) and the loop hands every message to Update
InitLive == UiStart({ShortFeed}, {{}}) /\ ExtractIdle /\ FetchIdle

FairUnits ==
    /\ WF_vars(\E i \in 1..Len(units) : RunFetchPosts(i, TRUE) \/ RunFetchPosts(i, FALSE))
    /\ WF_vars(\E i \in 1..Len(units) : RunFetchDetails(i, TRUE) \/ RunFetchDetails(i, FALSE))
    /\ WF_vars(\E i \in 1..Len(units) : PostsFetched(i))
    /\ WF_vars(\E i \in 1..Len(units) : PostDetailsFetched(i))

SpecUiLive == InitLive /\ [][NextUi]_vars /\ FairUnits

\* C31: a fetch that has produced its message produces no other and the
\* message is applied at most once; the result of a page fetch leaves Loading
\* for List or Error, that of a detail fetch for Details or Error; and with
\* the fetches running to their end every Loading screen is left, unless the
\* user quits first.
C31_LoadingEnds ==
    /\ [][\A i \in 1..Len(units) : units[i].done =>
             (units' = units \/ (ResultStep /\ units' = Remove(units, i)))]_vars
    /\ [][\A i \in 1..Len(units) : (ResultStep /\ units' = Remove(units, i)) =>
             /\ units[i].done /\ ui.state = "Loading"
             /\ ui'.state \in (IF units[i].kind = "posts" THEN {"List", "Error"}
                               ELSE {"Details", "Error"})]_vars
    /\ (ui.state = "Loading" /\ ~ui.quit) ~> (ui.state # "Loading" \/ ui.quit)

\* a detail fetch ended in Details
C31_Witness ==
    /\ handled.kind = "PostDetailsFetchedMsg" /\ ui.state = "Details"
    /\ ~ui.postDetails.isNil /\ units = << >>

\* a page fetch ended in Error
C31_WitnessError ==
    /\ handled.kind = "PostsFetchedMsg" /\ ui.state = "Error" /\ units = << >>

\* C32: the cursor history holds the empty first-page sentinel at most once,
\* at the bottom, and on page k > 1 it is the sentinel followed by the
\* cursors of pages 2..k, k entries in all; going forward to page 2 and back
\* to page 1 again and again does not make it grow.
C32_HistoryShape ==
    /\ \A j \in 2..Len(ui.cursorHistory) : ui.cursorHistory[j] # << >>
    /\ ui.currentPage > 1 =>
          /\ Len(ui.cursorHistory) = ui.currentPage
          /\ ui.cursorHistory[1] = << >>

\* what holds of the history: on a listed page k > 1 its top is the cursor
\* the page was fetched with, and below the top cursor of page 2 lies a
\* sentinel
C32_TopIsShownCursor ==
    (ui.state = "List" /\ ui.currentPage > 1) =>
        /\ Len(ui.cursorHistory) >= 2
        /\ ui.cursorHistory[Len(ui.cursorHistory)] = nav.shown
        /\ ui.cursorHistory[1] = << >>

\* page 2 listed for the second time after a forward, a back and a forward:
\* the history holds two sentinels
C32_SentinelTwice ==
    /\ ui.state = "List" /\ ui.currentPage = 2
    /\ ui.cursorHistory = << << >>, << >>, SecondCursor >>

\* the largest index of a sequence of n elements, 0 when it is empty
LastIndex(n) == IF n = 0 THEN 0 ELSE n - 1

\* C33: the list cursor is within [0, len(posts)-1], 0 when no post is
\* listed; in Details the link cursor is within [0, len(links)-1], 0 when the
\* post has no links, and the post under the list cursor is the one whose
\* details are on display; a successful page result sets the list cursor to
\* 0 and every entry into Details sets the link cursor to 0.
C33_CursorBounds ==
    /\ [](/\ ui.cursor \in 0..LastIndex(Len(ui.posts))
          /\ ui.state = "Details" =>
                /\ ui.linkCursor \in 0..LastIndex(Len(ShownLinks))
                /\ Len(ui.posts) > 0
                /\ ~ui.postDetails.isNil
                /\ ui.posts[ui.cursor + 1].ID = ui.postDetails.ID)
    /\ [][(handled'.kind = "PostsFetchedMsg" /\ units' # units /\ ui'.state = "List")
          => ui'.cursor = 0]_vars
    /\ [][(ui.state # "Details" /\ ui'.state = "Details") => ui'.linkCursor = 0]_vars

\* the details of the second listed post, the list cursor on it
C33_Witness ==
    /\ ui.state = "Details" /\ ui.cursor = 1 /\ Len(ui.posts) = 2
    /\ ui.postDetails.ID = ui.posts[2].ID

\* down was pressed with the link cursor on the last of two links
C33_WitnessLastLink ==
    /\ ui.state = "Details" /\ handled = [kind |-> "key", key |-> "down"]
    /\ Len(ShownLinks) = 2 /\ ui.linkCursor = 1

\* a page came in while the list cursor was on the second post
C33_WitnessReset ==
    /\ handled.kind = "PostsFetchedMsg" /\ ui.state = "List"
    /\ ui.cursor = 0 /\ ui.currentPage = 2

\* the flag of every listed post is what the store reports for its id
FlagsMatchStore ==
    \A k \in 1..Len(ui.posts) :
        ui.posts[k].DetailsCached = IsPostDetailsCached(posts, ui.posts[k].ID).cached

\* C34: whenever the browser shows List or Details, the detailsCached flag
\* of every listed post equals what IsPostDetailsCached reports for it in the
\* store: after a page load, after a detail result was stored and after a
\* forced detail refresh.
C34_FlagsMatchStore ==
    /\ [](ui.state \in {"List", "Details"} => FlagsMatchStore)
    /\ [][(handled'.kind = "key" /\ handled'.key = "R" /\ ui.state = "Details")
          => FlagsMatchStore']_vars

\* a detail result was stored: the flag of the post is set, in memory as in
\* the store, while another listed post has none
C34_Witness ==
    /\ ui.state = "Details" /\ handled.kind = "PostDetailsFetchedMsg"
    /\ Len(ui.posts) = 2
    /\ ui.posts[ui.cursor + 1].DetailsCached
    /\ \E k \in 1..Len(ui.posts) : ~ui.posts[k].DetailsCached

\* a page was loaded over a store that has the details of one of its posts
C34_WitnessLoad ==
    /\ ui.state = "List" /\ handled.kind = "PostsFetchedMsg"
    /\ \E k \in 1..Len(ui.posts) : ui.posts[k].DetailsCached

\* the forced refresh of a post whose details were cached
C34_WitnessForced ==
    /\ handled = [kind |-> "key", key |-> "R"] /\ ui.state = "Loading"
    /\ Len(units) = 1 /\ units[1].kind = "details"
    /\ ~ui.posts[ui.cursor + 1].DetailsCached
    /\ \E k \in 1..Len(ui.posts) : ui.posts[k].DetailsCached

\* the step is a page fetch unit ending without an error
PageFetchSucceeds ==
    /\ handled'.kind = "unit"
    /\ \E i \in 1..Len(units) :
          /\ units[i].kind = "posts" /\ ~units[i].done
          /\ units'[i].done /\ units'[i].msg.Err = ""

\* the step applies the result of a detail fetch that ended without an error
DetailResultStored ==
    /\ handled'.kind = "PostDetailsFetchedMsg"
    /\ \E i \in 1..Len(units) :
          /\ units[i].kind = "details" /\ units[i].done /\ units[i].msg.Err = ""
          /\ units' = Remove(units, i)

C35_WitnessCleared ==
    /\ handled = [kind |-> "key", key |-> "R"] /\ ui.state = "Loading"
    /\ Len(units) = 1 /\ units[1].kind = "details"
    /\ \E r \in posts : r.id = units[1].postID /\ ~r.details_cached
    /\ Len(ui.clipboardLinks) > 0

\* back from Details with the details of the post still in the store
C35_WitnessBack ==
    /\ handled.kind = "key" /\ handled.key \in {"esc", "backspace"}
    /\ ui.state = "List" /\ ui.postDetails.isNil
    /\ \E r \in posts : r.details_cached

\* a page fetch failed with the store still empty
C35_WitnessFailed ==
    /\ handled.kind = "unit" /\ Len(units) = 1 /\ units[1].kind = "posts"
    /\ units[1].done /\ units[1].msg.Err # ""
    /\ campaigns = {} /\ posts = {}

\* C36: in the browser every write to the store is made by the loop while
\* it applies a message or a key; a step in which a dispatched fetch unit runs
\* leaves the store as it was.
C36_StoreOnLoopOnly ==
    [][handled'.kind = "unit" => (campaigns' = campaigns /\ posts' = posts)]_vars

\* what holds of the loop and the units: while a dispatched fetch has not
\* produced its message, no step of the loop changes the store
C36_LoopLeavesStoreWhileUnitRuns ==
    [][((\E i \in 1..Len(units) : ~units[i].done) /\ handled'.kind # "unit")
       => (campaigns' = campaigns /\ posts' = posts)]_vars

\* a page fetch unit has written the campaign and a post into the store and
\* its message is not yet applied
C36_UnitWroteStore ==
    /\ handled.kind = "unit" /\ ui.state = "Loading"
    /\ Len(units) = 1 /\ units[1].kind = "posts" /\ units[1].done
    /\ \E r \in posts : r.campaign_id = units[1].campaignID
    /\ \E c \in campaigns : c.id = units[1].campaignID

\* the Error screen shown because the detail fetch of a post failed
DetailFetchFailed == ui.state = "Error" /\ ~ui.quit /\ nav.failed.kind = "details"

\* C37: when the Error screen was reached by a failed detail fetch of the
\* post p, retry dispatches the detail fetch of p again, and the result of
\* the retried fetch lands in Details or in Error, never in List.
C37_RetryRefetchesDetail ==
    /\ [][(DetailFetchFailed /\ KeyStep("Error", "r")) =>
             units' = <<DetailsUnit(SelectedPost.ID)>>]_vars
    /\ [][(ui.state = "Loading" /\ nav.failed.kind = "details" /\ ResultStep) =>
             ui'.state \in {"Details", "Error"}]_vars

\* what retry does after a failed detail fetch: it dispatches the fetch of
\* the page on display, whose result lands in List or in Error
C37_RetryRefetchesPage ==
    /\ [][(DetailFetchFailed /\ KeyStep("Error", "r")) =>
             /\ units' = <<PostsUnit(ui.campaignID, CurrentCursor)>>
             /\ ui'.state = "Loading"]_vars
    /\ [][(ui.state = "Loading" /\ nav.failed.kind = "details" /\ ResultStep) =>
             ui'.state \in {"List", "Error"}]_vars

\* the retry of a failed detail fetch has fetched a page of posts
C37_RetryFetchedPage ==
    /\ ui.state = "Loading" /\ nav.failed.kind = "details"
    /\ Len(units) = 1 /\ units[1].kind = "posts"
    /\ units[1].done /\ units[1].msg.Err = ""

\* the positions of the trace at which extractLinksFromCampaign returned
ReturnsAt == {i \in 1..Len(trace) : trace[i].k = "return"}

\* the links of a slice, as a set
LinkSet(sl) == {sl.elems[j] : j \in 1..Len(sl.elems)}

\* C38: every link the workflow obtained from a post of a campaign, from
\* the cache or from a detail fetch, is in the list the run emits, also when
\* a later page fetch of that campaign failed.
C38_LinksRetained ==
    (bpc = "done" /\ ret.err = "") =>
        \A i \in ReturnsAt : LinkSet(trace[i].links) \subseteq LinkSet(ret.links)

\* what holds: the links of every campaign whose pages were all fetched are
\* in the list the run emits
C38_CompletedCampaignLinksRetained ==
    (bpc = "done" /\ ret.err = "") =>
        \A i \in ReturnsAt : ~trace[i].err => LinkSet(trace[i].links) \subseteq LinkSet(ret.links)

\* the run ended with a campaign whose second page failed after its first
\* page had given links, and the emitted list lacks one of them
C38_LinksDropped ==
    /\ bpc = "done" /\ ret.err = ""
    /\ \E i \in ReturnsAt :
          /\ trace[i].err
          /\ \E l \in LinkSet(trace[i].links) : l \notin LinkSet(ret.links)

\* the batch workflow with its scheduling: the process runs on for as long
\* as it has a step to take (every remote call and every sleep returns)
WorkflowStep ==
    \/ BatchFetchPage(TRUE)
    \/ BatchFetchDetail(TRUE)
    \/ NextBatch

SpecBatchLive == InitBatch /\ [][NextBatch]_vars /\ WF_vars(WorkflowStep)

\* the step appends an event of kind k to the trace
StepEvent(k) == Len(trace') > Len(trace) /\ NewEvent.k = k

\* no event of kind k lies strictly between the positions i and j
NoneBetween(k, i, j) == \A m \in (i + 1)..(j - 1) : trace[m].k # k

\* C39: with remote calls that return and page chains that end, the
\* workflow terminates; within one visit of a campaign the first page is
\* requested with the empty cursor, each further page with the next cursor of
\* the page before it, and no cursor twice; and for each post of a fetched
\* page at most one detail fetch is made.
C39_BatchTerminates ==
    /\ <>(bpc = "done" /\ ret.done)
    /\ [][StepEvent("page") =>
             /\ NewEvent.cid = cfg.Campaigns[run.ci]
             /\ NewEvent.cursor = RequestCursor(run.c.cursor)
             /\ IF run.c.page = NoPage THEN run.c.cursor = << >>
                ELSE /\ run.c.page.HasMore
                     /\ run.c.cursor = run.c.page.NextCursor
                     /\ run.c.cursor # << >>]_vars
    /\ [](\A i, j \in EventsOf({"page"}) :
             (i < j /\ NoneBetween("return", i, j)) => trace[i].cursor # trace[j].cursor)
    /\ [][StepEvent("detail") =>
             /\ AtPost /\ NewEvent.id = CurrentPost.ID
             /\ run'.c.pi = run.c.pi + 1]_vars
    /\ [](\A i, j \in EventsOf({"detail"}) :
             (i < j /\ NoneBetween("page", i, j)) => trace[i].id # trace[j].id)

\* a run over two campaigns ended after it had fetched two pages of one
\* campaign and the details of two posts of one page
C39_Witness ==
    /\ bpc = "done" /\ ret.done /\ ret.err = ""
    /\ \E i, j \in EventsOf({"page"}) :
          i < j /\ NoneBetween("return", i, j) /\ ~trace[j].err
    /\ \E i, j \in EventsOf({"detail"}) : i < j /\ NoneBetween("page", i, j)

\* a run ended after the same campaign was visited twice
C39_WitnessTwice ==
    /\ bpc = "done" /\ ret.done
    /\ \E i, j \in EventsOf({"page"}) :
          i < j /\ trace[i].cid = trace[j].cid /\ trace[i].cursor = trace[j].cursor

\* C39 as stated: over the whole run no page cursor of a campaign is
\* requested twice.
C39_CursorOncePerCampaign ==
    \A i, j \in EventsOf({"page"}) :
        (i < j /\ trace[i].cid = trace[j].cid) => trace[i].cursor # trace[j].cursor

\* the campaigns of the configuration file the browser is started with
SeededConfig == <<[ID |-> "c1", Name |-> "Creator"]>>

RECURSIVE SeedCampaigns(_, _)
\* main: SaveCampaign(campaign.ID, campaign.Name) for each configured campaign
SeedCampaigns(rows, cs) ==
    IF cs = << >> THEN rows
    ELSE SeedCampaigns(SaveCampaignRows(rows, Head(cs).ID, Head(cs).Name, 0), Tail(cs))

\* the browser started by main with a configured campaign: its row is in
\* the store, with its name
InitSeeded ==
    /\ ui = NewModel
    /\ units = << >>
    /\ handled = [kind |-> "", key |-> ""]
    /\ nav = NoNav
    /\ remote = ShortFeed
    /\ campaigns = SeedCampaigns({}, SeededConfig)
    /\ posts = {}
    /\ now = 0
    /\ call = Idle
    /\ last = NoCall
    /\ cfg = [Campaigns |-> <<"c1">>, afterDate |-> << >>]
    /\ bpc = "idle"
    /\ run = RunLocals
    /\ trace = << >>
    /\ ret = NoReturn
    /\ ExtractIdle /\ FetchIdle

SpecSeeded == InitSeeded /\ [][NextUi]_vars

\* C40: a page fetch of the browser leaves the stored name of a campaign
\* whose name is not empty as it was; the upsert made on a fetch gives a
\* campaign the empty name only when it creates the row.
C40_NamePreserved ==
    [][\A r \in campaigns : r.name # "" =>
          \E s \in campaigns' : s.id = r.id /\ s.name = r.name]_vars

\* what holds: the row of a seeded campaign stays in the store, with the
\* seeded name or the empty one, and only a page fetch that succeeds changes
\* the campaigns table
C40_RowKept ==
    /\ [](\A c \in 1..Len(SeededConfig) :
            \E r \in campaigns : r.id = SeededConfig[c].ID /\ r.name \in {SeededConfig[c].Name, ""})
    /\ [][campaigns' # campaigns => PageFetchSucceeds]_vars

\* a page of the seeded campaign was fetched and its stored name is empty
C40_NameErased ==
    /\ handled.kind = "unit" /\ Len(units) = 1 /\ units[1].kind = "posts"
    /\ units[1].done /\ units[1].msg.Err = ""
    /\ \E r \in campaigns : r.id = "c1" /\ r.name = ""

====
